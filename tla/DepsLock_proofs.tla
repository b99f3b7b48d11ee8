--------------------------- MODULE DepsLock_proofs ---------------------------
(***************************************************************************)
(* What `graphcal deps lock` leaves on disk: the package cache, for any        *)
(* sources, lock runs, loaders and trees, and the atomic replacement of the     *)
(* lockfile, for any writers and edits, with a crash at any point.            *)
(*                                                                         *)
(* The cache: a directory is in one place (a checkout, a temporary directory  *)
(* or a backup), a source is touched only by the run that holds its writer    *)
(* lock, and that run moves a checkout aside only after it has found it bad,   *)
(* which no other run can have changed since, or could not read it.  So a good *)
(* checkout stays where it is, and with it everything a run materialized and   *)
(* everything a loader has open, except under a run that could not read it.    *)
(*                                                                         *)
(* The replacement: a temporary file is nobody's destination before its       *)
(* rename, in the cache or on disk; it is complete in the cache once written   *)
(* and on disk once synchronized; and a validation stays true, or is known to  *)
(* be outdated, until the rename.                                           *)
(***************************************************************************)
EXTENDS PackageCache, AtomicWrite, TLAPS

-----------------------------------------------------------------------------
(* The inductive invariant of the package cache.                            *)

Materializing ==
    {"locked", "fetch", "fetched", "publish", "swap", "rollback", "swapped"}
Holding == {"fetched", "publish", "swap", "rollback"}

\* A run holds the writer lock of the source it materializes, and no other.
Locks ==
    /\ \A p \in Procs : pc[p] \in Materializing =>
         /\ source[p] \in Sources /\ locked[source[p]] = p
         /\ session[p][source[p]] = NoTree <=> pc[p] # "swapped"
    /\ \A p \in Procs, s \in Sources :
         locked[s] = p => pc[p] \in Materializing /\ source[p] = s

\* What a run has on disk.
Holds(p) ==
    /\ pc[p] \in Holding => /\ temporary[p] = <<p, source[p]>>
                            /\ Fetched(p) \in Remote
    /\ temporary[p] # NoDir => /\ pc[p] \in Holding \cup {"crashed"}
                               /\ temporary[p] = <<p, source[p]>>
    /\ pc[p] \in {"swap", "rollback"} => /\ backup[p] \in Dirs
                                         /\ checkout[Target(p)] = NoDir
    /\ pc[p] = "swapped" => backup[p] \in Dirs
    /\ backup[p] # NoDir => pc[p] \in {"swap", "rollback", "swapped", "crashed"}

Holdings == \A p \in Procs : Holds(p)

Unused(d) ==
    /\ \A path \in Paths : checkout[path] # d
    /\ \A q \in Procs : backup[q] # d

\* A directory is in one place, and one that a run may still make is nowhere.
OneCheckout ==
    \A a, b \in Paths : checkout[a] = checkout[b] /\ checkout[a] # NoDir => a = b
BackupAside ==
    \A p \in Procs, path \in Paths : backup[p] # NoDir => checkout[path] # backup[p]
OneBackup ==
    \A p, q \in Procs : backup[p] = backup[q] /\ backup[p] # NoDir => p = q
TemporaryAside == \A p \in Procs : temporary[p] # NoDir => Unused(temporary[p])
Fresh ==
    \A p \in Procs, s \in Sources :
        /\ pc[p] \notin {"failed", "crashed"} /\ session[p][s] = NoTree
        /\ pc[p] \in Holding => source[p] # s
        => Unused(<<p, s>>)

Places == OneCheckout /\ BackupAside /\ OneBackup /\ TemporaryAside /\ Fresh

Bad(path) == ~Good(path) \/ path \in untrusted

\* What a run is about to replace was bad when it looked, and still is, unless the run
\* could not read it.
Suspect(p) == p \notin misread =>
    /\ pc[p] \in {"fetch", "fetched"} /\ Expected(p) # NoTree
       => Bad(<<source[p], Expected(p)>>)
    /\ pc[p] = "publish" => Bad(Target(p))

Suspects == \A p \in Procs : Suspect(p)

\* A run materializes what its lockfile names, and writes a complete lockfile.
Trusting(p) ==
    /\ pc[p] \in {"publish", "swap", "rollback"} => Expected(p) \in {NoTree, Fetched(p)}
    /\ pc[p] = "start" => session[p] = Nothing
    /\ pc[p] \in {"validated", "done"} => \A s \in Sources : session[p][s] # NoTree

Trust == \A p \in Procs : Trusting(p)

\* A loader whose directory is sound has it open at its path, and has read from it.
Sound(r) ==
    LET at == reader[r].at
        path == reader[r].path IN
    /\ at \in {"idle", "open"} => ~reader[r].sound
    /\ at \in {"open", "manifest", "captureManifest", "captureBody", "verify", "accepted"}
       => path \in Paths
    /\ at \in {"manifest", "captureManifest", "captureBody", "verify"} => reader[r].dir \in Dirs
    /\ at \in {"captureBody", "verify"} => reader[r].captured \in Tree
    /\ reader[r].sound /\ at \in {"manifest", "captureManifest", "captureBody", "verify"} =>
         /\ checkout[path] = reader[r].dir
         /\ content[reader[r].dir] = path[2]
         /\ path \notin untrusted
         /\ at # "manifest" => reader[r].manifest = path[2].manifest
         /\ at \in {"captureBody", "verify"} => reader[r].captured = path[2]

SoundReaders == \A r \in Readers : Sound(r)

\* What the loaders rely on.
LoadersSound == SoundReaders /\ LoaderUsesLockedTree /\ SoundReadsSucceed

IInv ==
    /\ TypeOK /\ Locks /\ Holdings /\ Places /\ Suspects
    /\ Trust /\ TrustedDigestsKept /\ LoadersSound
    /\ MaterializedIsStored /\ NothingLeftBehind

\* What a step does to the checkouts that are good: nothing.
GoodKept ==
    \A path \in Paths : Good(path) /\ path \notin untrusted =>
        /\ checkout'[path] = checkout[path]
        /\ content'[checkout[path]] = path[2]
        /\ path \notin untrusted'

\* The same, but for what a run that could not read it moves aside.
KeptBut(taken) ==
    \A path \in Paths : path # taken /\ Good(path) /\ path \notin untrusted =>
        /\ checkout'[path] = checkout[path]
        /\ content'[checkout[path]] = path[2]
        /\ path \notin untrusted'

TakenAside == \E p \in misread : pc[p] = "publish" /\ KeptBut(Target(p))

\* The path holds its tree after the step.
GoodAfter(path) ==
    checkout'[path] # NoDir /\ content'[checkout'[path]] = path[2]

BadAfter(path) == ~GoodAfter(path) \/ path \in untrusted'

\* What a step of run p does to other sources: nothing.
OwnSource(p) ==
    \A path \in Paths : path[1] # source[p] =>
        /\ checkout'[path] = checkout[path]
        /\ checkout[path] # NoDir => content'[checkout[path]] = content[checkout[path]]
        /\ path \in untrusted' <=> path \in untrusted

-----------------------------------------------------------------------------
(* Facts about the constants.                                               *)

LEMMA Distinct ==
    /\ NoTree \notin Remote /\ NoTree \notin Tree /\ Gone \notin Remote /\ Gone \notin Tree
    /\ Oversized \notin Remote /\ Remote \subseteq Tree
    /\ NoDir \notin Dirs /\ NoSource \notin Sources /\ NoProc \notin Procs
BY CacheAssumption, DirAssumption

LEMMA PathParts ==
    /\ \A s \in Sources, t \in Remote : /\ <<s, t>> \in Paths
                                        /\ <<s, t>>[1] = s /\ <<s, t>>[2] = t
    /\ \A path \in Paths : /\ path[1] \in Sources /\ path[2] \in Remote
                           /\ path = <<path[1], path[2]>>
BY DEF Paths

LEMMA RunDirs ==
    /\ \A p \in Procs, s \in Sources : <<p, s>> \in Dirs /\ <<p, s>> # NoDir
    /\ \A p, q \in Procs, s, t \in Sources : <<p, s>> = <<q, t>> => p = q /\ s = t
BY DirAssumption DEF Dirs

LEMMA EarlierDirs ==
    \A p \in Procs, s \in Sources, path \in Paths : <<p, s>> # <<"earlier", path[1], path[2]>>
OBVIOUS

-----------------------------------------------------------------------------
(* Steps that leave the good checkouts alone leave the loaders alone.        *)

LEMMA LoadersUndisturbed ==
    ASSUME IInv, reader' = reader, GoodKept PROVE LoadersSound'
<1>1. LoaderUsesLockedTree' /\ SoundReadsSucceed'
  BY DEF IInv, LoadersSound, LoaderUsesLockedTree, SoundReadsSucceed
<1>2. ASSUME NEW r \in Readers PROVE Sound(r)'
  <2>1. Sound(r)
    BY DEF IInv, LoadersSound, SoundReaders
  <2>2. ASSUME reader[r].sound,
               reader[r].at \in {"manifest", "captureManifest", "captureBody", "verify"}
        PROVE  /\ checkout'[reader[r].path] = reader[r].dir
               /\ content'[reader[r].dir] = reader[r].path[2]
               /\ reader[r].path \notin untrusted'
    <3>1. /\ reader[r].path \in Paths /\ reader[r].dir \in Dirs
          /\ checkout[reader[r].path] = reader[r].dir
          /\ content[reader[r].dir] = reader[r].path[2]
          /\ reader[r].path \notin untrusted
      BY <2>1, <2>2 DEF Sound
    <3>2. Good(reader[r].path)
      BY <3>1, Distinct DEF Good, Stored
    <3> QED BY <3>1, <3>2 DEF GoodKept
  <2> QED BY <2>1, <2>2 DEF Sound
<1> QED BY <1>1, <1>2 DEF LoadersSound, SoundReaders

Reading == {"manifest", "captureManifest", "captureBody", "verify"}

ReaderType ==
    [at : {"idle", "open", "manifest", "captureManifest", "captureBody", "verify",
           "accepted", "rejected"},
     path : Paths \cup {NoTree}, dir : Dirs \cup {NoDir},
     manifest : Manifests \cup {NoTree}, captured : Tree \cup {NoTree},
     sound : BOOLEAN]

LEMMA ReaderIs ==
    ASSUME IInv, NEW r \in Readers
    PROVE  /\ reader \in [Readers -> ReaderType] /\ reader[r] \in ReaderType /\ Sound(r)
BY DEF IInv, TypeOK, ReaderType, LoadersSound, SoundReaders

\* What is moved aside or touched disturbs only the loaders that have it open, and
\* they are not sound any more.
LEMMA LoadersTouched ==
    ASSUME IInv, NEW path \in Paths, checkout[path] # NoDir, KeptBut(path),
           Touched(path)
    PROVE  reader' \in [Readers -> ReaderType] /\ LoadersSound'
<1>1. reader' = [r \in Readers |->
          IF reader[r].dir = checkout[path] THEN [reader[r] EXCEPT !.sound = FALSE]
          ELSE reader[r]]
  BY DEF Touched
<1>2. reader' \in [Readers -> ReaderType]
  <2>1. ASSUME NEW r \in Readers
        PROVE  reader[r] \in ReaderType /\ [reader[r] EXCEPT !.sound = FALSE] \in ReaderType
    BY ReaderIs DEF ReaderType
  <2> QED BY <1>1, <2>1
<1>3. ASSUME NEW r \in Readers
      PROVE  /\ reader'[r].at = reader[r].at /\ reader'[r].path = reader[r].path
             /\ reader'[r].dir = reader[r].dir /\ reader'[r].manifest = reader[r].manifest
             /\ reader'[r].captured = reader[r].captured
             /\ reader'[r].sound => reader[r].sound /\ reader[r].dir # checkout[path]
             /\ reader[r].dir = checkout[path] => ~reader'[r].sound
  <2>1. reader[r] \in ReaderType
    BY ReaderIs
  <2> QED BY <1>1, <2>1 DEF ReaderType
<1>4. ASSUME NEW r \in Readers PROVE Sound(r)'
  <2>1. Sound(r)
    BY DEF IInv, LoadersSound, SoundReaders
  <2>2. ASSUME reader'[r].sound, reader[r].at \in Reading
        PROVE  /\ checkout'[reader[r].path] = reader[r].dir
               /\ content'[reader[r].dir] = reader[r].path[2]
               /\ reader[r].path \notin untrusted'
    <3>1. /\ reader[r].path \in Paths /\ reader[r].dir \in Dirs
          /\ checkout[reader[r].path] = reader[r].dir
          /\ content[reader[r].dir] = reader[r].path[2]
          /\ reader[r].path \notin untrusted /\ reader[r].dir # checkout[path]
      BY <1>3, <2>1, <2>2 DEF Sound, Reading
    <3>2. Good(reader[r].path) /\ reader[r].path # path
      BY <3>1, Distinct DEF Good, Stored
    <3> QED BY <3>1, <3>2 DEF KeptBut
  <2> QED BY <1>3, <2>1, <2>2 DEF Sound, Reading
<1>5. LoaderUsesLockedTree' /\ SoundReadsSucceed'
  BY <1>3 DEF IInv, LoadersSound, LoaderUsesLockedTree, SoundReadsSucceed
<1> QED BY <1>2, <1>4, <1>5 DEF LoadersSound, SoundReaders

\* What the invariant says of a run that has fetched, and of one between two renames.
LEMMA RunHolds ==
    ASSUME IInv, NEW p \in Procs, pc[p] \in Holding
    PROVE  /\ source[p] \in Sources /\ session[p][source[p]] = NoTree
           /\ temporary[p] = <<p, source[p]>> /\ temporary[p] \in Dirs /\ temporary[p] # NoDir
           /\ Fetched(p) \in Remote /\ content[temporary[p]] = Fetched(p)
           /\ Target(p) \in Paths /\ Target(p)[1] = source[p] /\ Target(p)[2] = Fetched(p)
           /\ \A path \in Paths : checkout[path] # temporary[p]
           /\ \A q \in Procs : backup[q] # temporary[p]
<1>1. pc[p] \in Materializing
  BY DEF Holding, Materializing
<1>2. source[p] \in Sources /\ session[p][source[p]] = NoTree
  BY <1>1 DEF IInv, Locks, Holding
<1>3. temporary[p] = <<p, source[p]>> /\ Fetched(p) \in Remote
  BY DEF IInv, Holdings, Holds
<1>4. temporary[p] \in Dirs /\ temporary[p] # NoDir
  BY <1>2, <1>3, RunDirs
<1>5. Target(p) \in Paths /\ Target(p)[1] = source[p] /\ Target(p)[2] = Fetched(p)
  BY <1>2, <1>3, PathParts DEF Target
<1>6. Unused(temporary[p])
  BY <1>4 DEF IInv, Places, TemporaryAside
<1> QED BY <1>2, <1>3, <1>4, <1>5, <1>6 DEF Unused, Fetched

LEMMA RunSwaps ==
    ASSUME IInv, NEW p \in Procs, pc[p] \in {"swap", "rollback", "swapped"}
    PROVE  /\ backup[p] \in Dirs /\ backup[p] # NoDir
           /\ pc[p] # "swapped" => checkout[Target(p)] = NoDir
           /\ \A path \in Paths : checkout[path] # backup[p]
           /\ \A q \in Procs : q # p => backup[q] # backup[p]
           /\ \A q \in Procs : temporary[q] # backup[p]
<1>1. /\ backup[p] \in Dirs /\ backup[p] # NoDir
      /\ pc[p] # "swapped" => checkout[Target(p)] = NoDir
  BY Distinct DEF IInv, Holdings, Holds
<1>2. \A path \in Paths : checkout[path] # backup[p]
  BY <1>1 DEF IInv, Places, BackupAside
<1>3. \A q \in Procs : q # p => backup[q] # backup[p]
  BY <1>1 DEF IInv, Places, OneBackup
<1>4. \A q \in Procs : temporary[q] # backup[p]
  BY <1>1 DEF IInv, Places, TemporaryAside, Unused
<1> QED BY <1>1, <1>2, <1>3, <1>4

\* Two runs never hold temporary directories of the same name.
LEMMA OwnTemporary ==
    ASSUME IInv, NEW p \in Procs, NEW q \in Procs, p # q, temporary[p] # NoDir
    PROVE  temporary[q] # temporary[p]
<1>1. temporary[p] = <<p, source[p]>> /\ (temporary[q] # NoDir => temporary[q] = <<q, source[q]>>)
  BY DEF IInv, Holdings, Holds
<1> QED BY <1>1

LEMMA SuspectAfter ==
    ASSUME NEW q \in Procs,
           q \notin misread' /\ pc'[q] \in {"fetch", "fetched"}
              /\ prior'[q][source'[q]] # NoTree
              => BadAfter(<<source'[q], prior'[q][source'[q]]>>),
           q \notin misread' /\ pc'[q] = "publish" => /\ BadAfter(<<source'[q], content'[temporary'[q]]>>)
                                 /\ content'[temporary'[q]] # NoTree
    PROVE  Suspect(q)'
BY DEF Suspect, Bad, Good, Stored, BadAfter, GoodAfter, Expected, Target, Fetched

LEMMA StillBad ==
    ASSUME TypeOK, NEW p \in Procs, OwnSource(p),
           NEW path \in Paths, path[1] # source[p], Bad(path)
    PROVE  BadAfter(path)
BY Distinct, PathParts DEF TypeOK, OwnSource, Bad, Good, Stored, BadAfter, GoodAfter

LEMMA ReadPriorLockStep ==
    ASSUME IInv, NEW p \in Procs, ReadPriorLock(p)
    PROVE  IInv' /\ GoodKept
<1>1. /\ pc[p] = "start" /\ pc' = [pc EXCEPT ![p] = "resolve"]
      /\ prior' = [prior EXCEPT ![p] = lockfile]
      /\ UNCHANGED <<lockfile, checkout, content, untrusted, altered, locked, source,
                     session, temporary, backup, preserved, misread, reader>>
  BY DEF ReadPriorLock, Unlock, Go, disk, writers
<1>2. /\ pc'[p] = "resolve" /\ prior'[p] = lockfile
      /\ \A q \in Procs \ {p} : pc'[q] = pc[q] /\ prior'[q] = prior[q]
  BY <1>1 DEF IInv, TypeOK
<1>3. temporary[p] = NoDir /\ backup[p] = NoDir
  BY <1>1 DEF IInv, Holdings, Holds, Holding
<1>4. GoodKept
  BY <1>1, <1>2, Distinct, PathParts DEF GoodKept, IInv, Good, Stored
<1>5. OwnSource(p)
  BY <1>1, <1>2 DEF OwnSource, IInv
<1>6. TypeOK'
  BY <1>1, <1>2 DEF IInv, TypeOK
<1>7. Locks'
  BY <1>1, <1>2 DEF IInv, Locks, Materializing
<1>8. Holdings'
  <2>1. ASSUME NEW q \in Procs, q # p PROVE Holds(q)'
    BY <1>1, <1>2, <2>1 DEF IInv, Holds, Holdings, Target, Fetched
  <2>2. Holds(p)'
    BY <1>1, <1>2 DEF IInv, Holds, Holdings, Holding
  <2> QED BY <2>1, <2>2 DEF Holdings
<1>9. OneCheckout'
  BY <1>1, <1>2 DEF IInv, OneCheckout, Places
<1>10. BackupAside'
  BY <1>1, <1>2 DEF IInv, BackupAside, Places
<1>11. OneBackup'
  BY <1>1, <1>2 DEF IInv, OneBackup, Places
<1>12. TemporaryAside'
  BY <1>1, <1>2 DEF IInv, TemporaryAside, Places, Unused
<1>13. Fresh'
  BY <1>1, <1>2 DEF IInv, Fresh, Places, Unused, Holding
<1>14. Suspects'
  <2>1. ASSUME NEW q \in Procs, q # p PROVE Suspect(q)'
    BY <1>1, <1>2, <2>1 DEF IInv, Suspect, Suspects, Bad, Expected, Target, Fetched, Good,
       Stored
  <2>2. Suspect(p)'
    BY <1>1, <1>2 DEF IInv, Suspect
  <2> QED BY <2>1, <2>2 DEF Suspects
<1>15. Trust'
  <2>1. ASSUME NEW q \in Procs, q # p PROVE Trusting(q)'
    BY <1>1, <1>2, <2>1 DEF IInv, Trusting, Trust, Expected, Fetched
  <2>2. Trusting(p)'
    BY <1>1, <1>2 DEF IInv, Trusting
  <2> QED BY <2>1, <2>2 DEF Trust
<1>16. TrustedDigestsKept'
  BY <1>1, <1>2 DEF IInv, TrustedDigestsKept, Trust, Trusting, Nothing
<1>17. LoadersSound'
  BY <1>1, <1>4, LoadersUndisturbed
<1>18. MaterializedIsStored'
  <2> SUFFICES ASSUME NEW q \in Procs, NEW s \in Sources, session[q][s] # NoTree
               PROVE  Good(<<s, session[q][s]>>)' \/ <<s, session[q][s]>> \in untrusted'
    BY <1>1 DEF MaterializedIsStored
  <2>1. /\ <<s, session[q][s]>> \in Paths
        /\ Good(<<s, session[q][s]>>) \/ <<s, session[q][s]>> \in untrusted
    BY PathParts DEF IInv, TypeOK, Digests, MaterializedIsStored
  <2> QED
    BY <1>1, <2>1 DEF GoodKept, Good, Stored
<1>19. NothingLeftBehind'
  <2> DEFINE Kept(d) == \/ \E path \in Paths : checkout'[path] = d
                        \/ \E q \in Procs : /\ d \in {temporary'[q], backup'[q]}
                                            /\ Running(q)' \/ pc'[q] = "crashed"
                        \/ d \in preserved'
  <2> SUFFICES ASSUME NEW d \in Dirs, content'[d] # Gone PROVE Kept(d)
    BY DEF NothingLeftBehind
  <2>1. CASE content[d] = Gone
    BY <1>1, <1>2, <2>1 DEF IInv
  <2>2. ASSUME NEW path \in Paths, checkout[path] = d PROVE Kept(d)
    BY <1>1, <1>2, <2>2 DEF IInv
  <2>3. ASSUME NEW q \in Procs, q # p, d \in {temporary[q], backup[q]},
               Running(q) \/ pc[q] = "crashed"
        PROVE  Kept(d)
    BY <1>1, <1>2, <2>3 DEF IInv, Running
  <2>4. CASE d \in {temporary[p], backup[p]}
    BY <1>1, <1>2, <1>3, Distinct, <2>4 DEF IInv
  <2>5. CASE d \in preserved
    BY <1>1, <2>5
  <2> HIDE DEF Kept
  <2> QED BY <2>1, <2>2, <2>3, <2>4, <2>5 DEF IInv, NothingLeftBehind
<1> QED
  BY <1>4, <1>6, <1>7, <1>8, <1>9, <1>10, <1>11, <1>12, <1>13, <1>14, <1>15, <1>16, <1>17, <1>18, <1>19
  DEF IInv, Places

LEMMA AcquireWriterLockStep ==
    ASSUME IInv, NEW p \in Procs, NEW s \in Sources, AcquireWriterLock(p, s)
    PROVE  IInv' /\ GoodKept
<1>1. /\ pc[p] = "resolve" /\ session[p][s] = NoTree /\ locked[s] = NoProc
      /\ pc' = [pc EXCEPT ![p] = "locked"]
      /\ locked' = [locked EXCEPT ![s] = p] /\ source' = [source EXCEPT ![p] = s]
      /\ UNCHANGED <<lockfile, checkout, content, untrusted, altered, prior, session,
                     temporary, backup, preserved, misread, reader>>
  BY DEF AcquireWriterLock, Unlock, Go, disk, writers
<1>2. /\ pc'[p] = "locked" /\ source'[p] = s
      /\ \A q \in Procs \ {p} : pc'[q] = pc[q] /\ source'[q] = source[q]
  BY <1>1 DEF IInv, TypeOK
<1>3. temporary[p] = NoDir /\ backup[p] = NoDir
  BY <1>1 DEF IInv, Holdings, Holds, Holding
<1>4. GoodKept
  BY <1>1, <1>2, Distinct, PathParts DEF GoodKept, IInv, Good, Stored
<1>5. OwnSource(p)
  BY <1>1, <1>2 DEF OwnSource, IInv
<1>6. TypeOK'
  BY <1>1, <1>2 DEF IInv, TypeOK
<1>7. Locks'
  BY <1>1, <1>2, Distinct DEF IInv, Locks, TypeOK, Materializing
<1>8. Holdings'
  <2>1. ASSUME NEW q \in Procs, q # p PROVE Holds(q)'
    BY <1>1, <1>2, <2>1 DEF IInv, Holds, Holdings, Target, Fetched
  <2>2. Holds(p)'
    BY <1>1, <1>2 DEF IInv, Holds, Holdings, Holding
  <2> QED BY <2>1, <2>2 DEF Holdings
<1>9. OneCheckout'
  BY <1>1, <1>2 DEF IInv, OneCheckout, Places
<1>10. BackupAside'
  BY <1>1, <1>2 DEF IInv, BackupAside, Places
<1>11. OneBackup'
  BY <1>1, <1>2 DEF IInv, OneBackup, Places
<1>12. TemporaryAside'
  BY <1>1, <1>2 DEF IInv, TemporaryAside, Places, Unused
<1>13. Fresh'
  BY <1>1, <1>2 DEF IInv, Fresh, Places, Unused, Holding
<1>14. Suspects'
  <2>1. ASSUME NEW q \in Procs, q # p PROVE Suspect(q)'
    BY <1>1, <1>2, <2>1 DEF IInv, Suspect, Suspects, Bad, Expected, Target, Fetched, Good,
       Stored
  <2>2. Suspect(p)'
    BY <1>1, <1>2 DEF IInv, Suspect
  <2> QED BY <2>1, <2>2 DEF Suspects
<1>15. Trust'
  <2>1. ASSUME NEW q \in Procs, q # p PROVE Trusting(q)'
    BY <1>1, <1>2, <2>1 DEF IInv, Trusting, Trust, Expected, Fetched
  <2>2. Trusting(p)'
    BY <1>1, <1>2 DEF IInv, Trusting
  <2> QED BY <2>1, <2>2 DEF Trust
<1>16. TrustedDigestsKept'
  BY <1>1, <1>2 DEF IInv, TrustedDigestsKept
<1>17. LoadersSound'
  BY <1>1, <1>4, LoadersUndisturbed
<1>18. MaterializedIsStored'
  <2> SUFFICES ASSUME NEW q \in Procs, NEW t \in Sources, session[q][t] # NoTree
               PROVE  Good(<<t, session[q][t]>>)' \/ <<t, session[q][t]>> \in untrusted'
    BY <1>1 DEF MaterializedIsStored
  <2>1. /\ <<t, session[q][t]>> \in Paths
        /\ Good(<<t, session[q][t]>>) \/ <<t, session[q][t]>> \in untrusted
    BY PathParts DEF IInv, TypeOK, Digests, MaterializedIsStored
  <2> QED
    BY <1>1, <2>1 DEF GoodKept, Good, Stored
<1>19. NothingLeftBehind'
  <2> DEFINE Kept(d) == \/ \E path \in Paths : checkout'[path] = d
                        \/ \E q \in Procs : /\ d \in {temporary'[q], backup'[q]}
                                            /\ Running(q)' \/ pc'[q] = "crashed"
                        \/ d \in preserved'
  <2> SUFFICES ASSUME NEW d \in Dirs, content'[d] # Gone PROVE Kept(d)
    BY DEF NothingLeftBehind
  <2>1. CASE content[d] = Gone
    BY <1>1, <1>2, <2>1 DEF IInv
  <2>2. ASSUME NEW path \in Paths, checkout[path] = d PROVE Kept(d)
    BY <1>1, <1>2, <2>2 DEF IInv
  <2>3. ASSUME NEW q \in Procs, q # p, d \in {temporary[q], backup[q]},
               Running(q) \/ pc[q] = "crashed"
        PROVE  Kept(d)
    BY <1>1, <1>2, <2>3 DEF IInv, Running
  <2>4. CASE d \in {temporary[p], backup[p]}
    BY <1>1, <1>2, <1>3, Distinct, <2>4 DEF IInv
  <2>5. CASE d \in preserved
    BY <1>1, <2>5
  <2> HIDE DEF Kept
  <2> QED BY <2>1, <2>2, <2>3, <2>4, <2>5 DEF IInv, NothingLeftBehind
<1> QED
  BY <1>4, <1>6, <1>7, <1>8, <1>9, <1>10, <1>11, <1>12, <1>13, <1>14, <1>15, <1>16, <1>17, <1>18, <1>19
  DEF IInv, Places

\* A materialization that fails deletes its temporary directory and frees the lock.
LEMMA FailedStep ==
    ASSUME IInv, NEW p \in Procs, pc[p] \in {"locked", "fetch", "fetched", "publish"}, Failed(p),
           content' = Deleted(p),
           UNCHANGED <<lockfile, checkout, altered, prior, backup, preserved, reader>>
    PROVE  IInv' /\ GoodKept
<1>1. /\ pc[p] \in {"locked", "fetch", "fetched", "publish"} /\ pc' = [pc EXCEPT ![p] = "failed"]
      /\ temporary' = [temporary EXCEPT ![p] = NoDir]
      /\ source' = [source EXCEPT ![p] = NoSource]
      /\ misread' = misread \ {p}
      /\ locked' = [s \in Sources |-> IF locked[s] = p THEN NoProc ELSE locked[s]]
      /\ content' = IF temporary[p] = NoDir THEN content ELSE [content EXCEPT ![temporary[p]] = Gone]
      /\ UNCHANGED <<lockfile, checkout, untrusted, altered, prior, session, backup,
                     preserved, reader>>
  BY DEF Failed, Deleted, Unlock, Go, disk, writers
<1>2. /\ pc'[p] = "failed" /\ temporary'[p] = NoDir /\ source'[p] = NoSource
      /\ \A q \in Procs \ {p} : pc'[q] = pc[q] /\ temporary'[q] = temporary[q]
                               /\ source'[q] = source[q]
  BY <1>1 DEF IInv, TypeOK
<1>3. backup[p] = NoDir
  BY <1>1 DEF IInv, Holdings, Holds
<1>4. \A q \in Procs : q # p /\ pc[q] \in Materializing =>
        source[q] \in Sources /\ source[q] # source[p]
  BY <1>1, <1>2 DEF IInv, Locks, Materializing
<1>5. \A q \in Procs : q # p /\ pc[q] \in Holding =>
        temporary'[q] = temporary[q] /\ content'[temporary[q]] = content[temporary[q]]
  BY <1>1, <1>2 DEF IInv, Holdings, Holds
<1>6. GoodKept
  BY <1>1, <1>2, Distinct, PathParts DEF GoodKept, IInv, Places, TemporaryAside, Unused,
     Good, Stored
<1>7. OwnSource(p)
  BY <1>1, <1>2 DEF OwnSource, IInv, Places, TemporaryAside, Unused
<1>8. TypeOK'
  BY <1>1, <1>2 DEF IInv, TypeOK
<1>9. Locks'
  BY <1>1, <1>2, Distinct DEF IInv, Locks, Materializing
<1>10. Holdings'
  <2>1. ASSUME NEW q \in Procs, q # p PROVE Holds(q)'
    <3>1. /\ Holds(q) /\ checkout' = checkout /\ backup'[q] = backup[q]
          /\ pc'[q] = pc[q] /\ source'[q] = source[q] /\ temporary'[q] = temporary[q]
      BY <1>1, <1>2, <2>1 DEF IInv, Holdings
    <3>2. ASSUME pc[q] \in Holding PROVE Fetched(q)' = Fetched(q) /\ Target(q)' = Target(q)
      BY <1>1, <1>2, <1>5, <2>1, <3>1, <3>2 DEF Fetched, Target
    <3> QED BY <3>1, <3>2 DEF Holds, Holding
  <2>2. Holds(p)'
    BY <1>1, <1>2 DEF IInv, Holds, Holdings, Holding
  <2> QED BY <2>1, <2>2 DEF Holdings
<1>11. OneCheckout'
  BY <1>1, <1>2 DEF IInv, OneCheckout, Places
<1>12. BackupAside'
  BY <1>1, <1>2 DEF IInv, BackupAside, Places
<1>13. OneBackup'
  BY <1>1, <1>2 DEF IInv, OneBackup, Places
<1>14. TemporaryAside'
  BY <1>1, <1>2 DEF IInv, TemporaryAside, Places, Unused
<1>15. Fresh'
  BY <1>1, <1>2 DEF IInv, Fresh, Places, Unused
<1>16. Suspects'
  <2>1. ASSUME NEW q \in Procs, q # p PROVE Suspect(q)'
    <3>1. Suspect(q) /\ TypeOK /\ Holds(q)
      BY DEF IInv, Suspects, Holdings
    <3>2. CASE pc[q] \in {"fetch", "fetched", "publish"} /\ q \notin misread
      <4>1. /\ source[q] \in Sources /\ source[q] # source[p]
            /\ pc'[q] = pc[q] /\ source'[q] = source[q] /\ prior'[q] = prior[q]
        BY <1>1, <1>2, <1>4, <2>1, <3>2 DEF Materializing
      <4>2. ASSUME pc[q] \in {"fetch", "fetched"}, Expected(q) # NoTree
            PROVE  BadAfter(<<source[q], Expected(q)>>)
        <5>1. <<source[q], Expected(q)>> \in Paths /\ Bad(<<source[q], Expected(q)>>)
          BY <3>1, <3>2, <4>1, <4>2, PathParts DEF TypeOK, Digests, Suspect, Expected
        <5> QED BY <1>7, <3>1, <4>1, <5>1, StillBad, PathParts
      <4>3. ASSUME pc[q] = "publish"
            PROVE  /\ BadAfter(<<source[q], content'[temporary'[q]]>>)
                   /\ content'[temporary'[q]] # NoTree
        <5>1. Target(q) \in Paths /\ Bad(Target(q)) /\ Fetched(q) \in Remote
          BY <3>1, <3>2, <4>1, <4>3, PathParts DEF Suspect, Holds, Holding, Target
        <5>2. content'[temporary'[q]] = Fetched(q)
          BY <1>1, <1>2, <1>5, <2>1, <4>3 DEF Holding, Fetched
        <5>3. BadAfter(Target(q))
          BY <1>7, <3>1, <4>1, <5>1, StillBad, PathParts DEF Target
        <5> QED BY <5>1, <5>2, <5>3, Distinct DEF Target
      <4> QED BY <4>1, <4>2, <4>3, SuspectAfter DEF Expected
    <3>3. CASE pc[q] \notin {"fetch", "fetched", "publish"} \/ q \in misread
      BY <1>1, <1>2, <2>1, <3>3 DEF Suspect
    <3> QED BY <3>2, <3>3
  <2>2. Suspect(p)'
    BY <1>1, <1>2 DEF IInv, Suspect
  <2> QED BY <2>1, <2>2 DEF Suspects
<1>17. Trust'
  <2>1. ASSUME NEW q \in Procs, q # p PROVE Trusting(q)'
    BY <1>1, <1>2, <1>5, <2>1 DEF IInv, Trusting, Trust, Holding, Expected, Fetched
  <2>2. Trusting(p)'
    BY <1>1, <1>2 DEF IInv, Trusting
  <2> QED BY <2>1, <2>2 DEF Trust
<1>18. TrustedDigestsKept'
  BY <1>1, <1>2 DEF IInv, TrustedDigestsKept
<1>19. LoadersSound'
  BY <1>1, <1>6, LoadersUndisturbed
<1>20. MaterializedIsStored'
  <2> SUFFICES ASSUME NEW q \in Procs, NEW s \in Sources, session[q][s] # NoTree
               PROVE  Good(<<s, session[q][s]>>)' \/ <<s, session[q][s]>> \in untrusted'
    BY <1>1 DEF MaterializedIsStored
  <2>1. /\ <<s, session[q][s]>> \in Paths
        /\ Good(<<s, session[q][s]>>) \/ <<s, session[q][s]>> \in untrusted
    BY PathParts DEF IInv, TypeOK, Digests, MaterializedIsStored
  <2> QED
    BY <1>1, <1>6, <2>1 DEF GoodKept, Good, Stored
<1>21. NothingLeftBehind'
  <2> DEFINE Kept(d) == \/ \E path \in Paths : checkout'[path] = d
                        \/ \E q \in Procs : /\ d \in {temporary'[q], backup'[q]}
                                            /\ Running(q)' \/ pc'[q] = "crashed"
                        \/ d \in preserved'
  <2> SUFFICES ASSUME NEW d \in Dirs, content'[d] # Gone PROVE Kept(d)
    BY DEF NothingLeftBehind
  <2>1. CASE content[d] = Gone
    BY <1>1, <1>2, <2>1 DEF IInv
  <2>2. ASSUME NEW path \in Paths, checkout[path] = d PROVE Kept(d)
    BY <1>1, <1>2, <2>2 DEF IInv
  <2>3. ASSUME NEW q \in Procs, q # p, d \in {temporary[q], backup[q]},
               Running(q) \/ pc[q] = "crashed"
        PROVE  Kept(d)
    BY <1>1, <1>2, <2>3 DEF IInv, Running
  <2>4. CASE d \in {temporary[p], backup[p]}
    BY <1>1, <1>2, <1>3, Distinct, <2>4 DEF IInv, TypeOK
  <2>5. CASE d \in preserved
    BY <1>1, <2>5
  <2> HIDE DEF Kept
  <2> QED BY <2>1, <2>2, <2>3, <2>4, <2>5 DEF IInv, NothingLeftBehind
<1> QED
  BY <1>6, <1>8, <1>9, <1>10, <1>11, <1>12, <1>13, <1>14, <1>15, <1>16, <1>17, <1>18, <1>19, <1>20, <1>21
  DEF IInv, Places

\* A checkout that is good already is all there is to materialize.
LEMMA MaterializedStep ==
    ASSUME IInv, NEW p \in Procs, NEW d \in Remote, pc[p] \in {"locked", "fetched"},
           Good(<<source[p], d>>), Expected(p) \in {NoTree, d},
           Materialized(p, d), content' = Deleted(p),
           UNCHANGED <<lockfile, checkout, altered, prior, backup, preserved, reader>>
    PROVE  IInv' /\ GoodKept
<1>1. /\ pc[p] \in {"locked", "fetched"} /\ pc' = [pc EXCEPT ![p] = "resolve"]
      /\ session' = [session EXCEPT ![p][source[p]] = d]
      /\ untrusted' = untrusted \ {<<source[p], d>>}
      /\ temporary' = [temporary EXCEPT ![p] = NoDir]
      /\ source' = [source EXCEPT ![p] = NoSource]
      /\ misread' = misread \ {p}
      /\ locked' = [s \in Sources |-> IF locked[s] = p THEN NoProc ELSE locked[s]]
      /\ content' = IF temporary[p] = NoDir THEN content ELSE [content EXCEPT ![temporary[p]] = Gone]
      /\ UNCHANGED <<lockfile, checkout, altered, prior, backup, preserved, reader>>
  BY DEF Materialized, Deleted, Unlock, Go, disk, writers
<1>2. /\ pc'[p] = "resolve" /\ temporary'[p] = NoDir /\ source'[p] = NoSource
      /\ \A q \in Procs \ {p} : pc'[q] = pc[q] /\ temporary'[q] = temporary[q]
                               /\ source'[q] = source[q]
  BY <1>1 DEF IInv, TypeOK
<1>3. backup[p] = NoDir
  BY <1>1 DEF IInv, Holdings, Holds
<1>4. checkout[<<source[p], d>>] # NoDir /\ content'[checkout[<<source[p], d>>]] = d
  BY <1>1, Distinct, PathParts DEF IInv, Locks, Materializing, Places, TemporaryAside,
     Unused, Good, Stored
<1>5. \A q \in Procs : q # p /\ pc[q] \in Materializing =>
        source[q] \in Sources /\ source[q] # source[p]
  BY <1>1, <1>2 DEF IInv, Locks, Materializing
<1>6. \A q \in Procs : q # p /\ pc[q] \in Holding =>
        temporary'[q] = temporary[q] /\ content'[temporary[q]] = content[temporary[q]]
  BY <1>1, <1>2 DEF IInv, Holdings, Holds
<1>7. GoodKept
  BY <1>1, <1>2, Distinct, PathParts DEF GoodKept, IInv, Places, TemporaryAside, Unused,
     Good, Stored
<1>8. OwnSource(p)
  BY <1>1, <1>2 DEF OwnSource, IInv, Places, TemporaryAside, Unused
<1>9. TypeOK'
  BY <1>1, <1>2 DEF IInv, TypeOK, Digests, Locks, Materializing
<1>10. Locks'
  BY <1>1, <1>2, Distinct DEF IInv, Locks, Materializing
<1>11. Holdings'
  <2>1. ASSUME NEW q \in Procs, q # p PROVE Holds(q)'
    <3>1. /\ Holds(q) /\ checkout' = checkout /\ backup'[q] = backup[q]
          /\ pc'[q] = pc[q] /\ source'[q] = source[q] /\ temporary'[q] = temporary[q]
      BY <1>1, <1>2, <2>1 DEF IInv, Holdings
    <3>2. ASSUME pc[q] \in Holding PROVE Fetched(q)' = Fetched(q) /\ Target(q)' = Target(q)
      BY <1>1, <1>2, <1>6, <2>1, <3>1, <3>2 DEF Fetched, Target
    <3> QED BY <3>1, <3>2 DEF Holds, Holding
  <2>2. Holds(p)'
    BY <1>1, <1>2 DEF IInv, Holds, Holdings, Holding
  <2> QED BY <2>1, <2>2 DEF Holdings
<1>12. OneCheckout'
  BY <1>1, <1>2 DEF IInv, OneCheckout, Places
<1>13. BackupAside'
  BY <1>1, <1>2 DEF IInv, BackupAside, Places
<1>14. OneBackup'
  BY <1>1, <1>2 DEF IInv, OneBackup, Places
<1>15. TemporaryAside'
  BY <1>1, <1>2 DEF IInv, TemporaryAside, Places, Unused
<1>16. Fresh'
  BY <1>1, <1>2, Distinct DEF IInv, Fresh, Places, Unused, TypeOK, Digests
<1>17. Suspects'
  <2>1. ASSUME NEW q \in Procs, q # p PROVE Suspect(q)'
    <3>1. Suspect(q) /\ TypeOK /\ Holds(q)
      BY DEF IInv, Suspects, Holdings
    <3>2. CASE pc[q] \in {"fetch", "fetched", "publish"} /\ q \notin misread
      <4>1. /\ source[q] \in Sources /\ source[q] # source[p]
            /\ pc'[q] = pc[q] /\ source'[q] = source[q] /\ prior'[q] = prior[q]
        BY <1>1, <1>2, <1>5, <2>1, <3>2 DEF Materializing
      <4>2. ASSUME pc[q] \in {"fetch", "fetched"}, Expected(q) # NoTree
            PROVE  BadAfter(<<source[q], Expected(q)>>)
        <5>1. <<source[q], Expected(q)>> \in Paths /\ Bad(<<source[q], Expected(q)>>)
          BY <3>1, <3>2, <4>1, <4>2, PathParts DEF TypeOK, Digests, Suspect, Expected
        <5> QED BY <1>8, <3>1, <4>1, <5>1, StillBad, PathParts
      <4>3. ASSUME pc[q] = "publish"
            PROVE  /\ BadAfter(<<source[q], content'[temporary'[q]]>>)
                   /\ content'[temporary'[q]] # NoTree
        <5>1. Target(q) \in Paths /\ Bad(Target(q)) /\ Fetched(q) \in Remote
          BY <3>1, <3>2, <4>1, <4>3, PathParts DEF Suspect, Holds, Holding, Target
        <5>2. content'[temporary'[q]] = Fetched(q)
          BY <1>1, <1>2, <1>6, <2>1, <4>3 DEF Holding, Fetched
        <5>3. BadAfter(Target(q))
          BY <1>8, <3>1, <4>1, <5>1, StillBad, PathParts DEF Target
        <5> QED BY <5>1, <5>2, <5>3, Distinct DEF Target
      <4> QED BY <4>1, <4>2, <4>3, SuspectAfter DEF Expected
    <3>3. CASE pc[q] \notin {"fetch", "fetched", "publish"} \/ q \in misread
      BY <1>1, <1>2, <2>1, <3>3 DEF Suspect
    <3> QED BY <3>2, <3>3
  <2>2. Suspect(p)'
    BY <1>1, <1>2 DEF IInv, Suspect
  <2> QED BY <2>1, <2>2 DEF Suspects
<1>18. Trust'
  <2>1. ASSUME NEW q \in Procs, q # p PROVE Trusting(q)'
    BY <1>1, <1>2, <1>6, <2>1 DEF IInv, Trusting, Trust, Holding, Expected, Fetched
  <2>2. Trusting(p)'
    BY <1>1, <1>2 DEF IInv, Trusting
  <2> QED BY <2>1, <2>2 DEF Trust
<1>19. TrustedDigestsKept'
  BY <1>1, <1>2 DEF IInv, TrustedDigestsKept, Expected
<1>20. LoadersSound'
  BY <1>1, <1>7, LoadersUndisturbed
<1>21. MaterializedIsStored'
  <2>1. GoodAfter(<<source[p], d>>) /\ <<source[p], d>> \in Paths
    BY <1>1, <1>2, <1>4, PathParts DEF GoodAfter, IInv, Locks, Materializing
  <2> SUFFICES ASSUME NEW q \in Procs, NEW s \in Sources, session'[q][s] # NoTree
               PROVE  \/ GoodAfter(<<s, session'[q][s]>>)
                      \/ <<s, session'[q][s]>> \in untrusted'
    BY Distinct, PathParts DEF MaterializedIsStored, Good, Stored, GoodAfter
  <2>2. CASE <<s, session'[q][s]>> = <<source[p], d>>
    BY <2>1, <2>2
  <2>3. CASE <<s, session'[q][s]>> # <<source[p], d>>
    <3>1. session'[q][s] = session[q][s] /\ <<s, session[q][s]>> \in Paths
      BY <1>1, <1>2, PathParts, <2>3 DEF IInv, TypeOK, Digests
    <3>2. Good(<<s, session[q][s]>>) \/ <<s, session[q][s]>> \in untrusted
      BY <3>1 DEF IInv, MaterializedIsStored
    <3> QED
      BY <1>1, <1>2, <1>7, <2>3, <3>1, <3>2 DEF GoodKept, Good, Stored, GoodAfter
  <2> QED BY <2>2, <2>3
<1>22. NothingLeftBehind'
  <2> DEFINE Kept(dir) == \/ \E path \in Paths : checkout'[path] = dir
                          \/ \E q \in Procs : /\ dir \in {temporary'[q], backup'[q]}
                                              /\ Running(q)' \/ pc'[q] = "crashed"
                          \/ dir \in preserved'
  <2> SUFFICES ASSUME NEW dir \in Dirs, content'[dir] # Gone PROVE Kept(dir)
    BY DEF NothingLeftBehind
  <2>1. CASE content[dir] = Gone
    BY <1>1, <1>2, <2>1 DEF IInv
  <2>2. ASSUME NEW path \in Paths, checkout[path] = dir PROVE Kept(dir)
    BY <1>1, <1>2, <2>2 DEF IInv
  <2>3. ASSUME NEW q \in Procs, q # p, dir \in {temporary[q], backup[q]},
               Running(q) \/ pc[q] = "crashed"
        PROVE  Kept(dir)
    BY <1>1, <1>2, <2>3 DEF IInv, Running
  <2>4. CASE dir \in {temporary[p], backup[p]}
    BY <1>1, <1>2, <1>3, Distinct, <2>4 DEF IInv, TypeOK
  <2>5. CASE dir \in preserved
    BY <1>1, <2>5
  <2> HIDE DEF Kept
  <2> QED BY <2>1, <2>2, <2>3, <2>4, <2>5 DEF IInv, NothingLeftBehind
<1> QED
  BY <1>7, <1>9, <1>10, <1>11, <1>12, <1>13, <1>14, <1>15, <1>16, <1>17, <1>18, <1>19, <1>20, <1>21, <1>22
  DEF IInv, Places

LEMMA GoFetchStep ==
    ASSUME IInv, NEW p \in Procs, pc[p] = "locked",
           misread' \in {misread, misread \cup {p}},
           p \notin misread' /\ Expected(p) # NoTree => ~Good(<<source[p], Expected(p)>>),
           pc' = [pc EXCEPT ![p] = "fetch"],
           UNCHANGED <<lockfile, disk, untrusted, altered, locked, prior, source, session,
                       temporary, backup, preserved, reader>>
    PROVE  IInv' /\ GoodKept
<1>1. /\ pc[p] = "locked" /\ pc' = [pc EXCEPT ![p] = "fetch"]
      /\ UNCHANGED <<lockfile, checkout, content, untrusted, altered, locked, prior,
                     source, session, temporary, backup, preserved, reader>>
  BY DEF disk
<1>0. \A q \in Procs \ {p} : q \in misread' <=> q \in misread
  OBVIOUS
<1>2. /\ pc'[p] = "fetch"
      /\ \A q \in Procs \ {p} : pc'[q] = pc[q]
  BY <1>1 DEF IInv, TypeOK
<1>3. temporary[p] = NoDir /\ backup[p] = NoDir
  BY <1>1 DEF IInv, Holdings, Holds, Holding
<1>4. GoodKept
  BY <1>1, <1>2, Distinct, PathParts DEF GoodKept, IInv, Good, Stored
<1>5. OwnSource(p)
  BY <1>1, <1>2 DEF OwnSource, IInv
<1>6. TypeOK'
  BY <1>1, <1>2 DEF IInv, TypeOK
<1>7. Locks'
  BY <1>1, <1>2 DEF IInv, Locks, Materializing
<1>8. Holdings'
  <2>1. ASSUME NEW q \in Procs, q # p PROVE Holds(q)'
    BY <1>1, <1>2, <2>1 DEF IInv, Holds, Holdings, Target, Fetched
  <2>2. Holds(p)'
    BY <1>1, <1>2 DEF IInv, Holds, Holdings, Holding
  <2> QED BY <2>1, <2>2 DEF Holdings
<1>9. OneCheckout'
  BY <1>1, <1>2 DEF IInv, OneCheckout, Places
<1>10. BackupAside'
  BY <1>1, <1>2 DEF IInv, BackupAside, Places
<1>11. OneBackup'
  BY <1>1, <1>2 DEF IInv, OneBackup, Places
<1>12. TemporaryAside'
  BY <1>1, <1>2 DEF IInv, TemporaryAside, Places, Unused
<1>13. Fresh'
  BY <1>1, <1>2 DEF IInv, Fresh, Places, Unused, Holding
<1>14. Suspects'
  <2>1. ASSUME NEW q \in Procs, q # p PROVE Suspect(q)'
    BY <1>0, <1>1, <1>2, <2>1 DEF IInv, Suspect, Suspects, Bad, Expected, Target, Fetched, Good,
       Stored
  <2>2. Suspect(p)'
    BY <1>1, <1>2 DEF IInv, Suspect, Bad, Expected, Good, Stored
  <2> QED BY <2>1, <2>2 DEF Suspects
<1>15. Trust'
  <2>1. ASSUME NEW q \in Procs, q # p PROVE Trusting(q)'
    BY <1>1, <1>2, <2>1 DEF IInv, Trusting, Trust, Expected, Fetched
  <2>2. Trusting(p)'
    BY <1>1, <1>2 DEF IInv, Trusting
  <2> QED BY <2>1, <2>2 DEF Trust
<1>16. TrustedDigestsKept'
  BY <1>1, <1>2 DEF IInv, TrustedDigestsKept
<1>17. LoadersSound'
  BY <1>1, <1>4, LoadersUndisturbed
<1>18. MaterializedIsStored'
  <2> SUFFICES ASSUME NEW q \in Procs, NEW s \in Sources, session[q][s] # NoTree
               PROVE  Good(<<s, session[q][s]>>)' \/ <<s, session[q][s]>> \in untrusted'
    BY <1>1 DEF MaterializedIsStored
  <2>1. /\ <<s, session[q][s]>> \in Paths
        /\ Good(<<s, session[q][s]>>) \/ <<s, session[q][s]>> \in untrusted
    BY PathParts DEF IInv, TypeOK, Digests, MaterializedIsStored
  <2> QED
    BY <1>1, <2>1 DEF GoodKept, Good, Stored
<1>19. NothingLeftBehind'
  <2> DEFINE Kept(d) == \/ \E path \in Paths : checkout'[path] = d
                        \/ \E q \in Procs : /\ d \in {temporary'[q], backup'[q]}
                                            /\ Running(q)' \/ pc'[q] = "crashed"
                        \/ d \in preserved'
  <2> SUFFICES ASSUME NEW d \in Dirs, content'[d] # Gone PROVE Kept(d)
    BY DEF NothingLeftBehind
  <2>1. CASE content[d] = Gone
    BY <1>1, <1>2, <2>1 DEF IInv
  <2>2. ASSUME NEW path \in Paths, checkout[path] = d PROVE Kept(d)
    BY <1>1, <1>2, <2>2 DEF IInv
  <2>3. ASSUME NEW q \in Procs, q # p, d \in {temporary[q], backup[q]},
               Running(q) \/ pc[q] = "crashed"
        PROVE  Kept(d)
    BY <1>1, <1>2, <2>3 DEF IInv, Running
  <2>4. CASE d \in {temporary[p], backup[p]}
    BY <1>1, <1>2, <1>3, Distinct, <2>4 DEF IInv
  <2>5. CASE d \in preserved
    BY <1>1, <2>5
  <2> HIDE DEF Kept
  <2> QED BY <2>1, <2>2, <2>3, <2>4, <2>5 DEF IInv, NothingLeftBehind
<1> QED
  BY <1>4, <1>6, <1>7, <1>8, <1>9, <1>10, <1>11, <1>12, <1>13, <1>14, <1>15, <1>16, <1>17, <1>18, <1>19
  DEF IInv, Places

LEMMA FetchStep ==
    ASSUME IInv, NEW p \in Procs, NEW t \in Remote, Fetch(p, t)
    PROVE  IInv' /\ GoodKept
<1>1. /\ pc[p] = "fetch" /\ pc' = [pc EXCEPT ![p] = "fetched"]
      /\ temporary' = [temporary EXCEPT ![p] = <<p, source[p]>>]
      /\ content' = [content EXCEPT ![<<p, source[p]>>] = t]
      /\ UNCHANGED <<lockfile, checkout, untrusted, altered, locked, prior, source,
                     session, backup, preserved, misread, reader>>
  BY DEF Fetch, Unlock, Go, disk, writers
<1>2. /\ pc'[p] = "fetched" /\ temporary'[p] = <<p, source[p]>>
      /\ \A q \in Procs \ {p} : pc'[q] = pc[q] /\ temporary'[q] = temporary[q]
  BY <1>1 DEF IInv, TypeOK
<1>3. temporary[p] = NoDir /\ backup[p] = NoDir
  BY <1>1 DEF IInv, Holdings, Holds, Holding
<1>4. <<p, source[p]>> \in Dirs /\ Unused(<<p, source[p]>>)
  BY <1>1, RunDirs DEF IInv, Locks, Places, Fresh, Materializing, Holding
<1>5. \A q \in Procs : q # p /\ pc[q] \in Materializing =>
        source[q] \in Sources /\ source[q] # source[p]
  BY <1>1, <1>2 DEF IInv, Locks, Materializing
<1>6. \A q \in Procs : q # p /\ pc[q] \in Holding =>
        temporary'[q] = temporary[q] /\ content'[temporary[q]] = content[temporary[q]]
  BY <1>1, <1>2 DEF IInv, Holdings, Holds
<1>7. GoodKept
  BY <1>1, <1>2, <1>4, Distinct, PathParts DEF GoodKept, IInv, Unused, Good, Stored
<1>8. OwnSource(p)
  BY <1>1, <1>2, <1>4 DEF OwnSource, IInv, Unused
<1>9. TypeOK'
  BY <1>1, <1>2, <1>4, Distinct DEF IInv, TypeOK
<1>10. Locks'
  BY <1>1, <1>2 DEF IInv, Locks, Materializing
<1>11. Holdings'
  <2>1. ASSUME NEW q \in Procs, q # p PROVE Holds(q)'
    <3>1. /\ Holds(q) /\ checkout' = checkout /\ backup'[q] = backup[q]
          /\ pc'[q] = pc[q] /\ source'[q] = source[q] /\ temporary'[q] = temporary[q]
      BY <1>1, <1>2, <2>1 DEF IInv, Holdings
    <3>2. ASSUME pc[q] \in Holding PROVE Fetched(q)' = Fetched(q) /\ Target(q)' = Target(q)
      BY <1>1, <1>2, <1>6, <2>1, <3>1, <3>2 DEF Fetched, Target
    <3> QED BY <3>1, <3>2 DEF Holds, Holding
  <2>2. Holds(p)'
    BY <1>1, <1>2, <1>3, <1>4 DEF IInv, Holds, TypeOK, Holding, Fetched
  <2> QED BY <2>1, <2>2 DEF Holdings
<1>12. OneCheckout'
  BY <1>1, <1>2 DEF IInv, OneCheckout, Places
<1>13. BackupAside'
  BY <1>1, <1>2 DEF IInv, BackupAside, Places
<1>14. OneBackup'
  BY <1>1, <1>2 DEF IInv, OneBackup, Places
<1>15. TemporaryAside'
  BY <1>1, <1>2, <1>4 DEF IInv, TemporaryAside, Places, Unused
<1>16. Fresh'
  BY <1>1, <1>2, <1>4 DEF IInv, Fresh, Places, Unused
<1>17. Suspects'
  <2>1. ASSUME NEW q \in Procs, q # p PROVE Suspect(q)'
    <3>1. Suspect(q) /\ TypeOK /\ Holds(q)
      BY DEF IInv, Suspects, Holdings
    <3>2. CASE pc[q] \in {"fetch", "fetched", "publish"} /\ q \notin misread
      <4>1. /\ source[q] \in Sources /\ source[q] # source[p]
            /\ pc'[q] = pc[q] /\ source'[q] = source[q] /\ prior'[q] = prior[q]
        BY <1>1, <1>2, <1>5, <2>1, <3>2 DEF Materializing
      <4>2. ASSUME pc[q] \in {"fetch", "fetched"}, Expected(q) # NoTree
            PROVE  BadAfter(<<source[q], Expected(q)>>)
        <5>1. <<source[q], Expected(q)>> \in Paths /\ Bad(<<source[q], Expected(q)>>)
          BY <3>1, <3>2, <4>1, <4>2, PathParts DEF TypeOK, Digests, Suspect, Expected
        <5> QED BY <1>8, <3>1, <4>1, <5>1, StillBad, PathParts
      <4>3. ASSUME pc[q] = "publish"
            PROVE  /\ BadAfter(<<source[q], content'[temporary'[q]]>>)
                   /\ content'[temporary'[q]] # NoTree
        <5>1. Target(q) \in Paths /\ Bad(Target(q)) /\ Fetched(q) \in Remote
          BY <3>1, <3>2, <4>1, <4>3, PathParts DEF Suspect, Holds, Holding, Target
        <5>2. content'[temporary'[q]] = Fetched(q)
          BY <1>1, <1>2, <1>6, <2>1, <4>3 DEF Holding, Fetched
        <5>3. BadAfter(Target(q))
          BY <1>8, <3>1, <4>1, <5>1, StillBad, PathParts DEF Target
        <5> QED BY <5>1, <5>2, <5>3, Distinct DEF Target
      <4> QED BY <4>1, <4>2, <4>3, SuspectAfter DEF Expected
    <3>3. CASE pc[q] \notin {"fetch", "fetched", "publish"} \/ q \in misread
      BY <1>1, <1>2, <2>1, <3>3 DEF Suspect
    <3> QED BY <3>2, <3>3
  <2>2. Suspect(p)'
    <3>1. Suspect(p) /\ TypeOK /\ source[p] \in Sources
      BY <1>1 DEF IInv, Suspects, Locks, Materializing
    <3>2. ASSUME p \notin misread, Expected(p) # NoTree
          PROVE  BadAfter(<<source[p], Expected(p)>>)
      <4>1. <<source[p], Expected(p)>> \in Paths /\ Bad(<<source[p], Expected(p)>>)
        BY <1>1, <3>1, <3>2, PathParts DEF TypeOK, Digests, Suspect, Expected
      <4>2. checkout[<<source[p], Expected(p)>>] # <<p, source[p]>>
        BY <1>1, <1>2, <1>4, <4>1 DEF Unused
      <4> QED
        BY <1>1, <3>1, <4>1, <4>2 DEF TypeOK, Bad, Good, Stored, BadAfter, GoodAfter
    <3>3. pc'[p] = "fetched" /\ source' = source /\ prior' = prior /\ misread' = misread
      BY <1>1, <1>2
    <3> QED BY <3>2, <3>3, SuspectAfter DEF Expected
  <2> QED BY <2>1, <2>2 DEF Suspects
<1>18. Trust'
  <2>1. ASSUME NEW q \in Procs, q # p PROVE Trusting(q)'
    BY <1>1, <1>2, <1>6, <2>1 DEF IInv, Trusting, Trust, Holding, Expected, Fetched
  <2>2. Trusting(p)'
    BY <1>1, <1>2 DEF IInv, Trusting
  <2> QED BY <2>1, <2>2 DEF Trust
<1>19. TrustedDigestsKept'
  BY <1>1, <1>2 DEF IInv, TrustedDigestsKept
<1>20. LoadersSound'
  BY <1>1, <1>7, LoadersUndisturbed
<1>21. MaterializedIsStored'
  <2> SUFFICES ASSUME NEW q \in Procs, NEW s \in Sources, session[q][s] # NoTree
               PROVE  Good(<<s, session[q][s]>>)' \/ <<s, session[q][s]>> \in untrusted'
    BY <1>1 DEF MaterializedIsStored
  <2>1. /\ <<s, session[q][s]>> \in Paths
        /\ Good(<<s, session[q][s]>>) \/ <<s, session[q][s]>> \in untrusted
    BY PathParts DEF IInv, TypeOK, Digests, MaterializedIsStored
  <2> QED
    BY <1>1, <1>7, <2>1 DEF GoodKept, Good, Stored
<1>22. NothingLeftBehind'
  <2> DEFINE Kept(d) == \/ \E path \in Paths : checkout'[path] = d
                        \/ \E q \in Procs : /\ d \in {temporary'[q], backup'[q]}
                                            /\ Running(q)' \/ pc'[q] = "crashed"
                        \/ d \in preserved'
  <2> SUFFICES ASSUME NEW d \in Dirs, content'[d] # Gone PROVE Kept(d)
    BY DEF NothingLeftBehind
  <2>1. CASE content[d] = Gone
    BY <1>1, <1>2, <2>1 DEF IInv, Running
  <2>2. ASSUME NEW path \in Paths, checkout[path] = d PROVE Kept(d)
    BY <1>1, <1>2, <2>2 DEF IInv
  <2>3. ASSUME NEW q \in Procs, q # p, d \in {temporary[q], backup[q]},
               Running(q) \/ pc[q] = "crashed"
        PROVE  Kept(d)
    BY <1>1, <1>2, <2>3 DEF IInv, Running
  <2>4. CASE d \in {temporary[p], backup[p]}
    BY <1>1, <1>2, <1>3, Distinct, <2>4 DEF IInv
  <2>5. CASE d \in preserved
    BY <1>1, <2>5
  <2> HIDE DEF Kept
  <2> QED BY <2>1, <2>2, <2>3, <2>4, <2>5 DEF IInv, NothingLeftBehind
<1> QED
  BY <1>7, <1>9, <1>10, <1>11, <1>12, <1>13, <1>14, <1>15, <1>16, <1>17, <1>18, <1>19, <1>20, <1>21, <1>22
  DEF IInv, Places

LEMMA GoPublishStep ==
    ASSUME IInv, NEW p \in Procs, pc[p] = "fetched", Expected(p) \in {NoTree, Fetched(p)},
           misread' \in {misread, misread \cup {p}}, p \notin misread' => Bad(Target(p)),
           pc' = [pc EXCEPT ![p] = "publish"],
           UNCHANGED <<lockfile, disk, untrusted, altered, locked, prior, source, session,
                       temporary, backup, preserved, reader>>
    PROVE  IInv' /\ GoodKept
<1>1. /\ pc[p] = "fetched" /\ pc' = [pc EXCEPT ![p] = "publish"]
      /\ UNCHANGED <<lockfile, checkout, content, untrusted, altered, locked, prior,
                     source, session, temporary, backup, preserved, reader>>
  BY DEF disk
<1>0. \A q \in Procs \ {p} : q \in misread' <=> q \in misread
  OBVIOUS
<1>2. /\ pc'[p] = "publish"
      /\ \A q \in Procs \ {p} : pc'[q] = pc[q]
  BY <1>1 DEF IInv, TypeOK
<1>3. backup[p] = NoDir
  BY <1>1 DEF IInv, Holdings, Holds
<1>4. GoodKept
  BY <1>1, <1>2, Distinct, PathParts DEF GoodKept, IInv, Good, Stored
<1>5. OwnSource(p)
  BY <1>1, <1>2 DEF OwnSource, IInv
<1>6. TypeOK'
  BY <1>1, <1>2 DEF IInv, TypeOK
<1>7. Locks'
  BY <1>1, <1>2 DEF IInv, Locks, Materializing
<1>8. Holdings'
  <2>1. ASSUME NEW q \in Procs, q # p PROVE Holds(q)'
    BY <1>1, <1>2, <2>1 DEF IInv, Holds, Holdings, Target, Fetched
  <2>2. Holds(p)'
    BY <1>1, <1>2 DEF IInv, Holds, Holdings, Holding, Fetched
  <2> QED BY <2>1, <2>2 DEF Holdings
<1>9. OneCheckout'
  BY <1>1, <1>2 DEF IInv, OneCheckout, Places
<1>10. BackupAside'
  BY <1>1, <1>2 DEF IInv, BackupAside, Places
<1>11. OneBackup'
  BY <1>1, <1>2 DEF IInv, OneBackup, Places
<1>12. TemporaryAside'
  BY <1>1, <1>2 DEF IInv, TemporaryAside, Places, Unused
<1>13. Fresh'
  BY <1>1, <1>2 DEF IInv, Fresh, Places, Unused, Holding
<1>14. Suspects'
  <2>1. ASSUME NEW q \in Procs, q # p PROVE Suspect(q)'
    BY <1>0, <1>1, <1>2, <2>1 DEF IInv, Suspect, Suspects, Bad, Expected, Target, Fetched, Good,
       Stored
  <2>2. Suspect(p)'
    BY <1>1, <1>2 DEF IInv, Suspect, Bad, Target, Fetched, Good, Stored
  <2> QED BY <2>1, <2>2 DEF Suspects
<1>15. Trust'
  <2>1. ASSUME NEW q \in Procs, q # p PROVE Trusting(q)'
    BY <1>1, <1>2, <2>1 DEF IInv, Trusting, Trust, Expected, Fetched
  <2>2. Trusting(p)'
    BY <1>1, <1>2 DEF IInv, Trusting, Expected, Fetched
  <2> QED BY <2>1, <2>2 DEF Trust
<1>16. TrustedDigestsKept'
  BY <1>1, <1>2 DEF IInv, TrustedDigestsKept
<1>17. LoadersSound'
  BY <1>1, <1>4, LoadersUndisturbed
<1>18. MaterializedIsStored'
  <2> SUFFICES ASSUME NEW q \in Procs, NEW s \in Sources, session[q][s] # NoTree
               PROVE  Good(<<s, session[q][s]>>)' \/ <<s, session[q][s]>> \in untrusted'
    BY <1>1 DEF MaterializedIsStored
  <2>1. /\ <<s, session[q][s]>> \in Paths
        /\ Good(<<s, session[q][s]>>) \/ <<s, session[q][s]>> \in untrusted
    BY PathParts DEF IInv, TypeOK, Digests, MaterializedIsStored
  <2> QED
    BY <1>1, <2>1 DEF GoodKept, Good, Stored
<1>19. NothingLeftBehind'
  <2> DEFINE Kept(d) == \/ \E path \in Paths : checkout'[path] = d
                        \/ \E q \in Procs : /\ d \in {temporary'[q], backup'[q]}
                                            /\ Running(q)' \/ pc'[q] = "crashed"
                        \/ d \in preserved'
  <2> SUFFICES ASSUME NEW d \in Dirs, content'[d] # Gone PROVE Kept(d)
    BY DEF NothingLeftBehind
  <2>1. CASE content[d] = Gone
    BY <1>1, <1>2, <2>1 DEF IInv
  <2>2. ASSUME NEW path \in Paths, checkout[path] = d PROVE Kept(d)
    BY <1>1, <1>2, <2>2 DEF IInv
  <2>3. ASSUME NEW q \in Procs, q # p, d \in {temporary[q], backup[q]},
               Running(q) \/ pc[q] = "crashed"
        PROVE  Kept(d)
    BY <1>1, <1>2, <2>3 DEF IInv, Running
  <2>4. CASE d \in {temporary[p], backup[p]}
    BY <1>1, <1>2, <2>4 DEF IInv, Running
  <2>5. CASE d \in preserved
    BY <1>1, <2>5
  <2> HIDE DEF Kept
  <2> QED BY <2>1, <2>2, <2>3, <2>4, <2>5 DEF IInv, NothingLeftBehind
<1> QED
  BY <1>4, <1>6, <1>7, <1>8, <1>9, <1>10, <1>11, <1>12, <1>13, <1>14, <1>15, <1>16, <1>17, <1>18, <1>19
  DEF IInv, Places

LEMMA PublishFreeStep ==
    ASSUME IInv, NEW p \in Procs, PublishCheckout(p), checkout[Target(p)] = NoDir
    PROVE  IInv' /\ GoodKept
<1>1. /\ pc[p] = "publish" /\ pc' = [pc EXCEPT ![p] = "resolve"]
      /\ checkout' = [checkout EXCEPT ![Target(p)] = temporary[p]]
      /\ session' = [session EXCEPT ![p][source[p]] = Fetched(p)]
      /\ untrusted' = untrusted \ {Target(p)}
      /\ temporary' = [temporary EXCEPT ![p] = NoDir]
      /\ source' = [source EXCEPT ![p] = NoSource]
      /\ misread' = misread \ {p}
      /\ locked' = [s \in Sources |-> IF locked[s] = p THEN NoProc ELSE locked[s]]
      /\ UNCHANGED <<lockfile, content, altered, prior, backup, preserved, reader>>
  BY DEF PublishCheckout, Materialized, Target, Unlock, Go, disk, writers
<1>2. /\ pc'[p] = "resolve" /\ temporary'[p] = NoDir /\ source'[p] = NoSource
      /\ \A q \in Procs \ {p} : pc'[q] = pc[q] /\ temporary'[q] = temporary[q]
                               /\ source'[q] = source[q]
  BY <1>1 DEF IInv, TypeOK
<1>3. backup[p] = NoDir
  BY <1>1 DEF IInv, Holdings, Holds
<1>4. /\ source[p] \in Sources /\ session[p][source[p]] = NoTree
      /\ temporary[p] = <<p, source[p]>> /\ temporary[p] \in Dirs /\ temporary[p] # NoDir
      /\ Fetched(p) \in Remote /\ content[temporary[p]] = Fetched(p)
      /\ Target(p) \in Paths /\ Target(p)[1] = source[p] /\ Target(p)[2] = Fetched(p)
      /\ \A path \in Paths : checkout[path] # temporary[p]
      /\ \A q \in Procs : backup[q] # temporary[p]
  BY <1>1, RunHolds DEF Holding
<1>5. \A q \in Procs : q # p => temporary[q] # temporary[p]
  BY <1>1, <1>2, <1>4, OwnTemporary
<1>6. \A d \in Dirs : Unused(d) /\ d # temporary[p] =>
        /\ \A path \in Paths : checkout'[path] # d
        /\ \A q \in Procs : backup'[q] # d
  BY <1>1, <1>2 DEF IInv, Unused
<1>7. \A q \in Procs : q # p /\ pc[q] \in Materializing =>
        source[q] \in Sources /\ source[q] # source[p]
  BY <1>1, <1>2 DEF IInv, Locks, Materializing
<1>8. \A q \in Procs : q # p /\ pc[q] \in Holding =>
        temporary'[q] = temporary[q] /\ content'[temporary[q]] = content[temporary[q]]
  BY <1>1, <1>2 DEF IInv
<1>9. GoodKept
  <2> SUFFICES ASSUME NEW path \in Paths, Good(path), path \notin untrusted
               PROVE  /\ checkout'[path] = checkout[path]
                      /\ content'[checkout[path]] = path[2] /\ path \notin untrusted'
    BY DEF GoodKept
  <2>1. path # Target(p)
    BY Distinct, PathParts DEF Good, Stored
  <2>2. checkout[path] \in Dirs /\ content[checkout[path]] = path[2]
    BY Distinct, PathParts DEF IInv, TypeOK, Good, Stored
  <2> QED
    BY <1>1, <1>2, <2>1, <2>2 DEF IInv
<1>10. OwnSource(p)
  BY <1>1, <1>2, <1>4 DEF OwnSource, IInv
<1>11. TypeOK'
  BY <1>1, <1>2, <1>4 DEF IInv, TypeOK, Digests
<1>12. Locks'
  BY <1>1, <1>2, Distinct DEF IInv, Locks, Materializing
<1>13. Holdings'
  <2>1. ASSUME NEW q \in Procs, q # p PROVE Holds(q)'
    BY <1>1, <1>2, <2>1 DEF IInv, Holds, Holdings, Locks, Materializing, Target, Fetched
  <2>2. Holds(p)'
    BY <1>1, <1>2 DEF IInv, Holds, Holdings, Holding
  <2> QED BY <2>1, <2>2 DEF Holdings
<1>14. OneCheckout'
  BY <1>1, <1>2 DEF IInv, OneCheckout, Places, TemporaryAside, Unused
<1>15. BackupAside'
  BY <1>1, <1>2 DEF IInv, BackupAside, Places, TemporaryAside, Unused
<1>16. OneBackup'
  BY <1>1, <1>2 DEF IInv, OneBackup, Places
<1>17. TemporaryAside'
  BY <1>1, <1>2, <1>5 DEF IInv, TemporaryAside, Places, Unused
<1>18. Fresh'
  <2> SUFFICES ASSUME NEW q \in Procs, NEW s \in Sources,
                      pc'[q] \notin {"failed", "crashed"}, session'[q][s] = NoTree,
                      pc'[q] \in Holding => source'[q] # s
               PROVE  Unused(<<q, s>>)'
    BY DEF Fresh
  <2>1. q = p => s # source[p]
    BY <1>1, <1>2, <1>4, Distinct DEF IInv, TypeOK, Digests
  <2>2. Unused(<<q, s>>)
    <3>1. CASE q = p
      <4>1. session[p][s] = NoTree /\ source[p] # s
        BY <1>1, <1>2, <2>1, <3>1 DEF IInv
      <4> QED BY <1>1, <3>1, <4>1 DEF IInv, Places, Fresh
    <3>2. CASE q # p
      <4>1. session[q][s] = NoTree /\ pc'[q] = pc[q] /\ source'[q] = source[q]
        BY <1>1, <1>2, <3>2 DEF IInv
      <4> QED BY <4>1 DEF IInv, Places, Fresh
    <3> QED BY <3>1, <3>2
  <2>3. <<q, s>> # temporary[p]
    BY <1>1, <1>2, <1>4, <2>1
  <2> QED
    BY <1>1, <1>2, <2>2, <2>3 DEF Unused
<1>19. Suspects'
  <2>1. ASSUME NEW q \in Procs, q # p PROVE Suspect(q)'
    <3>1. Suspect(q) /\ TypeOK /\ Holds(q)
      BY DEF IInv, Suspects, Holdings
    <3>2. CASE pc[q] \in {"fetch", "fetched", "publish"} /\ q \notin misread
      <4>1. /\ source[q] \in Sources /\ source[q] # source[p]
            /\ pc'[q] = pc[q] /\ source'[q] = source[q] /\ prior'[q] = prior[q]
        BY <1>1, <1>2, <1>7, <2>1, <3>2 DEF Materializing
      <4>2. ASSUME pc[q] \in {"fetch", "fetched"}, Expected(q) # NoTree
            PROVE  BadAfter(<<source[q], Expected(q)>>)
        <5>1. <<source[q], Expected(q)>> \in Paths /\ Bad(<<source[q], Expected(q)>>)
          BY <3>1, <3>2, <4>1, <4>2, PathParts DEF TypeOK, Digests, Suspect, Expected
        <5> QED BY <1>10, <3>1, <4>1, <5>1, StillBad, PathParts
      <4>3. ASSUME pc[q] = "publish"
            PROVE  /\ BadAfter(<<source[q], content'[temporary'[q]]>>)
                   /\ content'[temporary'[q]] # NoTree
        <5>1. Target(q) \in Paths /\ Bad(Target(q)) /\ Fetched(q) \in Remote
          BY <3>1, <3>2, <4>1, <4>3, PathParts DEF Suspect, Holds, Holding, Target
        <5>2. content'[temporary'[q]] = Fetched(q)
          BY <1>1, <1>2, <2>1, <4>3 DEF Holding, Fetched
        <5>3. BadAfter(Target(q))
          BY <1>10, <3>1, <4>1, <5>1, StillBad, PathParts DEF Target
        <5> QED BY <5>1, <5>2, <5>3, Distinct DEF Target
      <4> QED BY <4>1, <4>2, <4>3, SuspectAfter DEF Expected
    <3>3. CASE pc[q] \notin {"fetch", "fetched", "publish"} \/ q \in misread
      BY <1>1, <1>2, <2>1, <3>3 DEF Suspect
    <3> QED BY <3>2, <3>3
  <2>2. Suspect(p)'
    BY <1>1, <1>2 DEF IInv, Suspect
  <2> QED BY <2>1, <2>2 DEF Suspects
<1>20. Trust'
  <2>1. ASSUME NEW q \in Procs, q # p PROVE Trusting(q)'
    BY <1>1, <1>2, <2>1 DEF IInv, Trusting, Trust, Expected, Fetched
  <2>2. Trusting(p)'
    BY <1>1, <1>2 DEF IInv, Trusting
  <2> QED BY <2>1, <2>2 DEF Trust
<1>21. TrustedDigestsKept'
  <2>1. prior[p][source[p]] \in {NoTree, Fetched(p)}
    BY <1>1 DEF IInv, Trust, Trusting, Expected
  <2> SUFFICES ASSUME NEW q \in Procs, NEW s \in Sources, prior[q][s] # NoTree
               PROVE  session'[q][s] \in {NoTree, prior[q][s]}
    BY <1>1 DEF TrustedDigestsKept
  <2>2. session[q][s] \in {NoTree, prior[q][s]}
    BY DEF IInv, TrustedDigestsKept
  <2>3. CASE q = p /\ s = source[p]
    BY <1>1, <1>2, <1>4, <2>1, <2>3 DEF IInv
  <2>4. CASE ~(q = p /\ s = source[p])
    BY <1>1, <1>2, <2>2, <2>4 DEF IInv
  <2> QED BY <2>3, <2>4
<1>22. LoadersSound'
  BY <1>1, <1>9, LoadersUndisturbed
<1>23. MaterializedIsStored'
  <2>1. GoodAfter(Target(p)) /\ Target(p) \in Paths
    BY <1>1, <1>2, <1>4 DEF GoodAfter, IInv, TypeOK
  <2> SUFFICES ASSUME NEW q \in Procs, NEW s \in Sources, session'[q][s] # NoTree
               PROVE  \/ GoodAfter(<<s, session'[q][s]>>)
                      \/ <<s, session'[q][s]>> \in untrusted'
    BY Distinct, PathParts DEF MaterializedIsStored, Good, Stored, GoodAfter
  <2>2. CASE <<s, session'[q][s]>> = Target(p)
    BY <2>1, <2>2
  <2>3. CASE <<s, session'[q][s]>> # Target(p)
    <3>1. session'[q][s] = session[q][s] /\ <<s, session[q][s]>> \in Paths
      BY <1>1, <1>2, <1>4, PathParts, <2>3 DEF IInv, TypeOK, Digests
    <3>2. Good(<<s, session[q][s]>>) \/ <<s, session[q][s]>> \in untrusted
      BY <3>1 DEF IInv, MaterializedIsStored
    <3> QED
      BY <1>1, <1>2, <2>3, <3>1, <3>2 DEF GoodKept, Good, Stored, GoodAfter
  <2> QED BY <2>2, <2>3
<1>24. NothingLeftBehind'
  <2> DEFINE Kept(d) == \/ \E path \in Paths : checkout'[path] = d
                        \/ \E q \in Procs : /\ d \in {temporary'[q], backup'[q]}
                                            /\ Running(q)' \/ pc'[q] = "crashed"
                        \/ d \in preserved'
  <2> SUFFICES ASSUME NEW d \in Dirs, content'[d] # Gone PROVE Kept(d)
    BY DEF NothingLeftBehind
  <2>1. CASE content[d] = Gone
    BY <1>1, <1>2, <2>1 DEF IInv
  <2>2. ASSUME NEW path \in Paths, checkout[path] = d PROVE Kept(d)
    BY <1>1, <1>2, Distinct, <2>2 DEF IInv
  <2>3. ASSUME NEW q \in Procs, q # p, d \in {temporary[q], backup[q]},
               Running(q) \/ pc[q] = "crashed"
        PROVE  Kept(d)
    BY <1>1, <1>2, <2>3 DEF IInv, Running
  <2>4. CASE d \in {temporary[p], backup[p]}
    BY <1>1, <1>2, <1>3, <1>4, Distinct, <2>4 DEF IInv, TypeOK
  <2>5. CASE d \in preserved
    BY <1>1, <2>5
  <2> HIDE DEF Kept
  <2> QED BY <2>1, <2>2, <2>3, <2>4, <2>5 DEF IInv, NothingLeftBehind
<1> QED
  BY <1>9, <1>11, <1>12, <1>13, <1>14, <1>15, <1>16, <1>17, <1>18, <1>19, <1>20, <1>21, <1>22, <1>23, <1>24
  DEF IInv, Places

\* The checkout that is moved aside is bad: no good one is disturbed.
LEMMA PublishAsideStep ==
    ASSUME IInv, NEW p \in Procs, PublishCheckout(p), checkout[Target(p)] # NoDir
    PROVE  IInv' /\ (GoodKept \/ TakenAside)
<1>1. /\ pc[p] = "publish" /\ pc' = [pc EXCEPT ![p] = "swap"]
      /\ checkout' = [checkout EXCEPT ![Target(p)] = NoDir]
      /\ backup' = [backup EXCEPT ![p] = checkout[Target(p)]]
      /\ UNCHANGED <<lockfile, content, altered, locked, prior, source, session,
                     temporary, preserved, misread>>
      /\ p \in misread => Touched(Target(p))
      /\ p \notin misread => UNCHANGED <<untrusted, reader>>
  BY DEF PublishCheckout, Unlock, Go, disk, writers
<1>2. /\ pc'[p] = "swap" /\ backup'[p] = checkout[Target(p)]
      /\ \A q \in Procs \ {p} : pc'[q] = pc[q] /\ backup'[q] = backup[q]
  BY <1>1 DEF IInv, TypeOK
<1>3. backup[p] = NoDir
  BY <1>1 DEF IInv, Holdings, Holds
<1>4. /\ source[p] \in Sources /\ session[p][source[p]] = NoTree
      /\ temporary[p] = <<p, source[p]>> /\ temporary[p] \in Dirs /\ temporary[p] # NoDir
      /\ Fetched(p) \in Remote /\ content[temporary[p]] = Fetched(p)
      /\ Target(p) \in Paths /\ Target(p)[1] = source[p] /\ Target(p)[2] = Fetched(p)
      /\ \A path \in Paths : checkout[path] # temporary[p]
      /\ \A q \in Procs : backup[q] # temporary[p]
  BY <1>1, RunHolds DEF Holding
<1>5. \A q \in Procs : q # p => temporary[q] # temporary[p]
  BY <1>1, <1>2, <1>4, OwnTemporary
<1>6. \A d \in Dirs : Unused(d) /\ d # temporary[p] =>
        /\ \A path \in Paths : checkout'[path] # d
        /\ \A q \in Procs : backup'[q] # d
  BY <1>1, <1>2, <1>3, <1>4 DEF IInv, Unused
<1>7. \A q \in Procs : q # p /\ pc[q] \in Materializing =>
        source[q] \in Sources /\ source[q] # source[p]
  BY <1>1, <1>2 DEF IInv, Locks, Materializing
<1>8. \A q \in Procs : q # p /\ pc[q] \in Holding =>
        temporary'[q] = temporary[q] /\ content'[temporary[q]] = content[temporary[q]]
  BY <1>1, <1>2 DEF IInv
<1>9. KeptBut(Target(p))
  <2> SUFFICES ASSUME NEW path \in Paths, path # Target(p), Good(path), path \notin untrusted
               PROVE  /\ checkout'[path] = checkout[path]
                      /\ content'[checkout[path]] = path[2] /\ path \notin untrusted'
    BY DEF KeptBut
  <2>1. path \notin untrusted'
    BY <1>1 DEF Touched
  <2>2. checkout[path] \in Dirs /\ content[checkout[path]] = path[2]
    BY Distinct, PathParts DEF IInv, TypeOK, Good, Stored
  <2> QED
    BY <1>1, <1>2, <2>1, <2>2 DEF IInv
<1>25. p \notin misread => Bad(Target(p)) /\ GoodKept
  BY <1>1, <1>9 DEF IInv, Suspects, Suspect, Bad, KeptBut, GoodKept
<1>26. GoodKept \/ TakenAside
  BY <1>1, <1>9, <1>25 DEF TakenAside
<1>27. \A path \in Paths : path # Target(p) => (path \in untrusted' <=> path \in untrusted)
  BY <1>1 DEF Touched
<1>28. p \in misread => Target(p) \in untrusted'
  BY <1>1 DEF Touched
<1>22. reader' \in [Readers -> ReaderType] /\ LoadersSound'
  <2>1. CASE p \in misread
    BY <1>1, <1>4, <1>9, <2>1, LoadersTouched
  <2>2. CASE p \notin misread
    <3>1. reader' = reader /\ GoodKept
      BY <1>1, <1>25, <2>2
    <3>2. reader' \in [Readers -> ReaderType]
      BY <3>1 DEF IInv, TypeOK, ReaderType
    <3> QED BY <3>1, <3>2, LoadersUndisturbed
  <2> QED BY <2>1, <2>2
<1>10. OwnSource(p)
  BY <1>1, <1>2, <1>4, <1>27 DEF OwnSource, IInv
<1>11. TypeOK'
  <2>1. untrusted' \subseteq Paths
    BY <1>1, <1>4 DEF IInv, TypeOK, Touched
  <2> QED BY <1>1, <1>2, <1>4, <1>22, <2>1 DEF IInv, TypeOK, ReaderType
<1>12. Locks'
  BY <1>1, <1>2 DEF IInv, Locks, Materializing
<1>13. Holdings'
  <2>1. ASSUME NEW q \in Procs, q # p PROVE Holds(q)'
    BY <1>1, <1>2, <2>1 DEF IInv, Holds, Holdings, Target, Fetched
  <2>2. Holds(p)'
    BY <1>1, <1>2, <1>4 DEF IInv, Holds, TypeOK, Holding, Target, Fetched
  <2> QED BY <2>1, <2>2 DEF Holdings
<1>14. OneCheckout'
  BY <1>1, <1>2 DEF IInv, OneCheckout, Places
<1>15. BackupAside'
  BY <1>1, <1>2, <1>4 DEF IInv, BackupAside, Places, OneCheckout, TypeOK
<1>16. OneBackup'
  BY <1>1, <1>2, <1>4 DEF IInv, OneBackup, Places, BackupAside
<1>17. TemporaryAside'
  BY <1>1, <1>2, <1>4 DEF IInv, TemporaryAside, Places, Unused
<1>18. Fresh'
  BY <1>1, <1>2, <1>3, <1>4 DEF IInv, Fresh, Places, Unused
<1>19. Suspects'
  <2>1. ASSUME NEW q \in Procs, q # p PROVE Suspect(q)'
    <3>1. Suspect(q) /\ TypeOK /\ Holds(q)
      BY DEF IInv, Suspects, Holdings
    <3>2. CASE pc[q] \in {"fetch", "fetched", "publish"} /\ q \notin misread
      <4>1. /\ source[q] \in Sources /\ source[q] # source[p]
            /\ pc'[q] = pc[q] /\ source'[q] = source[q] /\ prior'[q] = prior[q]
        BY <1>1, <1>2, <1>7, <2>1, <3>2 DEF Materializing
      <4>2. ASSUME pc[q] \in {"fetch", "fetched"}, Expected(q) # NoTree
            PROVE  BadAfter(<<source[q], Expected(q)>>)
        <5>1. <<source[q], Expected(q)>> \in Paths /\ Bad(<<source[q], Expected(q)>>)
          BY <3>1, <3>2, <4>1, <4>2, PathParts DEF TypeOK, Digests, Suspect, Expected
        <5> QED BY <1>10, <3>1, <4>1, <5>1, StillBad, PathParts
      <4>3. ASSUME pc[q] = "publish"
            PROVE  /\ BadAfter(<<source[q], content'[temporary'[q]]>>)
                   /\ content'[temporary'[q]] # NoTree
        <5>1. Target(q) \in Paths /\ Bad(Target(q)) /\ Fetched(q) \in Remote
          BY <3>1, <3>2, <4>1, <4>3, PathParts DEF Suspect, Holds, Holding, Target
        <5>2. content'[temporary'[q]] = Fetched(q)
          BY <1>1, <1>2, <2>1, <4>3 DEF Holding, Fetched
        <5>3. BadAfter(Target(q))
          BY <1>10, <3>1, <4>1, <5>1, StillBad, PathParts DEF Target
        <5> QED BY <5>1, <5>2, <5>3, Distinct DEF Target
      <4> QED BY <4>1, <4>2, <4>3, SuspectAfter DEF Expected
    <3>3. CASE pc[q] \notin {"fetch", "fetched", "publish"} \/ q \in misread
      BY <1>1, <1>2, <2>1, <3>3 DEF Suspect
    <3> QED BY <3>2, <3>3
  <2>2. Suspect(p)'
    BY <1>1, <1>2 DEF IInv, Suspect
  <2> QED BY <2>1, <2>2 DEF Suspects
<1>20. Trust'
  <2>1. ASSUME NEW q \in Procs, q # p PROVE Trusting(q)'
    BY <1>1, <1>2, <2>1 DEF IInv, Trusting, Trust, Expected, Fetched
  <2>2. Trusting(p)'
    BY <1>1, <1>2, <1>3, <1>4, <1>5, <1>6, <1>7, <1>8, Distinct, PathParts, RunDirs DEF
       IInv, Trusting, Trust, TypeOK, Digests, Locks, Materializing, Holdings, Holds, Holding,
       Expected, Target, Fetched, Nothing
  <2> QED BY <2>1, <2>2 DEF Trust
<1>21. TrustedDigestsKept'
  BY <1>1, <1>2 DEF IInv, TrustedDigestsKept
<1>23. MaterializedIsStored'
  <2> SUFFICES ASSUME NEW q \in Procs, NEW s \in Sources, session[q][s] # NoTree
               PROVE  Good(<<s, session[q][s]>>)' \/ <<s, session[q][s]>> \in untrusted'
    BY <1>1 DEF MaterializedIsStored
  <2>1. /\ <<s, session[q][s]>> \in Paths
        /\ Good(<<s, session[q][s]>>) \/ <<s, session[q][s]>> \in untrusted
    BY PathParts DEF IInv, TypeOK, Digests, MaterializedIsStored
  <2>2. CASE <<s, session[q][s]>> = Target(p)
    BY <1>1, <1>25, <1>28, <2>1, <2>2 DEF Bad
  <2>3. CASE <<s, session[q][s]>> # Target(p)
    BY <1>1, <1>9, <1>27, <2>1, <2>3 DEF KeptBut, Good, Stored
  <2> QED BY <2>2, <2>3
<1>24. NothingLeftBehind'
  <2> DEFINE Kept(d) == \/ \E path \in Paths : checkout'[path] = d
                        \/ \E q \in Procs : /\ d \in {temporary'[q], backup'[q]}
                                            /\ Running(q)' \/ pc'[q] = "crashed"
                        \/ d \in preserved'
  <2> SUFFICES ASSUME NEW d \in Dirs, content'[d] # Gone PROVE Kept(d)
    BY DEF NothingLeftBehind
  <2>1. CASE content[d] = Gone
    BY <1>1, <1>2, <2>1 DEF IInv
  <2>2. ASSUME NEW path \in Paths, checkout[path] = d PROVE Kept(d)
    BY <1>1, <1>2, <2>2 DEF IInv, Running
  <2>3. ASSUME NEW q \in Procs, q # p, d \in {temporary[q], backup[q]},
               Running(q) \/ pc[q] = "crashed"
        PROVE  Kept(d)
    BY <1>1, <1>2, <2>3 DEF IInv, Running
  <2>4. CASE d \in {temporary[p], backup[p]}
    <3>1. d = temporary'[p]
      BY <1>1, <1>3, <2>4, Distinct
    <3>2. Running(p)'
      BY <1>2 DEF Running
    <3> QED BY <3>1, <3>2
  <2>5. CASE d \in preserved
    BY <1>1, <2>5
  <2> HIDE DEF Kept
  <2> QED BY <2>1, <2>2, <2>3, <2>4, <2>5 DEF IInv, NothingLeftBehind
<1> QED
  BY <1>26, <1>11, <1>12, <1>13, <1>14, <1>15, <1>16, <1>17, <1>18, <1>19, <1>20, <1>21, <1>22, <1>23, <1>24
  DEF IInv, Places

LEMMA SwapStep ==
    ASSUME IInv, NEW p \in Procs, Swap(p)
    PROVE  IInv' /\ GoodKept
<1>1. /\ pc[p] = "swap" /\ pc' = [pc EXCEPT ![p] = "swapped"]
      /\ checkout' = [checkout EXCEPT ![Target(p)] = temporary[p]]
      /\ session' = [session EXCEPT ![p][source[p]] = Fetched(p)]
      /\ untrusted' = untrusted \ {Target(p)}
      /\ temporary' = [temporary EXCEPT ![p] = NoDir]
      /\ UNCHANGED <<lockfile, content, altered, locked, prior, source, backup, preserved,
                     misread, reader>>
  BY DEF Swap, Go
<1>2. /\ pc'[p] = "swapped" /\ temporary'[p] = NoDir
      /\ \A q \in Procs \ {p} : pc'[q] = pc[q] /\ temporary'[q] = temporary[q]
  BY <1>1 DEF IInv, TypeOK
<1>3. /\ source[p] \in Sources /\ session[p][source[p]] = NoTree
      /\ temporary[p] = <<p, source[p]>> /\ temporary[p] \in Dirs /\ temporary[p] # NoDir
      /\ Fetched(p) \in Remote /\ content[temporary[p]] = Fetched(p)
      /\ Target(p) \in Paths /\ Target(p)[1] = source[p] /\ Target(p)[2] = Fetched(p)
      /\ \A path \in Paths : checkout[path] # temporary[p]
      /\ \A q \in Procs : backup[q] # temporary[p]
  BY <1>1, RunHolds DEF Holding
<1>4. /\ backup[p] \in Dirs /\ backup[p] # NoDir
      /\ checkout[Target(p)] = NoDir
      /\ \A path \in Paths : checkout[path] # backup[p]
      /\ \A q \in Procs : q # p => backup[q] # backup[p]
      /\ \A q \in Procs : temporary[q] # backup[p]
  BY <1>1, RunSwaps
<1>5. \A q \in Procs : q # p => temporary[q] # temporary[p]
  BY <1>1, <1>2, <1>3, OwnTemporary
<1>6. \A d \in Dirs : Unused(d) /\ d # temporary[p] =>
        /\ \A path \in Paths : checkout'[path] # d
        /\ \A q \in Procs : backup'[q] # d
  BY <1>1, <1>2, <1>3, <1>4 DEF IInv, Unused
<1>7. \A q \in Procs : q # p /\ pc[q] \in Materializing =>
        source[q] \in Sources /\ source[q] # source[p]
  BY <1>1, <1>2 DEF IInv, Locks, Materializing
<1>8. \A q \in Procs : q # p /\ pc[q] \in Holding =>
        temporary'[q] = temporary[q] /\ content'[temporary[q]] = content[temporary[q]]
  BY <1>1, <1>2, <1>4 DEF IInv
<1>9. GoodKept
  <2> SUFFICES ASSUME NEW path \in Paths, Good(path), path \notin untrusted
               PROVE  /\ checkout'[path] = checkout[path]
                      /\ content'[checkout[path]] = path[2] /\ path \notin untrusted'
    BY DEF GoodKept
  <2>1. path # Target(p)
    BY <1>1, <1>2, <1>4, Distinct, PathParts DEF IInv, Good, Stored
  <2>2. checkout[path] \in Dirs /\ content[checkout[path]] = path[2]
    BY Distinct, PathParts DEF IInv, TypeOK, Good, Stored
  <2> QED
    BY <1>1, <1>2, <1>4, <2>1, <2>2 DEF IInv
<1>10. OwnSource(p)
  BY <1>1, <1>2, <1>3, <1>4 DEF OwnSource, IInv
<1>11. TypeOK'
  BY <1>1, <1>2, <1>3, <1>4 DEF IInv, TypeOK, Digests
<1>12. Locks'
  BY <1>1, <1>2, <1>3, Distinct DEF IInv, Locks, Materializing, TypeOK, Digests
<1>13. Holdings'
  <2>1. ASSUME NEW q \in Procs, q # p PROVE Holds(q)'
    BY <1>1, <1>2, <1>4, <2>1 DEF IInv, Holds, Holdings, Locks, Materializing, Target,
       Fetched
  <2>2. Holds(p)'
    BY <1>1, <1>2, <1>4 DEF IInv, Holds, Holding
  <2> QED BY <2>1, <2>2 DEF Holdings
<1>14. OneCheckout'
  BY <1>1, <1>2 DEF IInv, OneCheckout, Places, TemporaryAside, Unused
<1>15. BackupAside'
  BY <1>1, <1>2, <1>3 DEF IInv, BackupAside, Places, TemporaryAside, Unused
<1>16. OneBackup'
  BY <1>1, <1>2 DEF IInv, OneBackup, Places
<1>17. TemporaryAside'
  BY <1>1, <1>2, <1>5 DEF IInv, TemporaryAside, Places, Unused
<1>18. Fresh'
  <2> SUFFICES ASSUME NEW q \in Procs, NEW s \in Sources,
                      pc'[q] \notin {"failed", "crashed"}, session'[q][s] = NoTree,
                      pc'[q] \in Holding => source'[q] # s
               PROVE  Unused(<<q, s>>)'
    BY DEF Fresh
  <2>1. q = p => s # source[p]
    BY <1>1, <1>2, <1>3, Distinct DEF IInv, TypeOK, Digests
  <2>2. Unused(<<q, s>>)
    <3>1. CASE q = p
      <4>1. session[p][s] = NoTree /\ source[p] # s
        BY <1>1, <1>2, <2>1, <3>1 DEF IInv, TypeOK, Digests
      <4> QED BY <1>1, <3>1, <4>1 DEF IInv, Places, Fresh
    <3>2. CASE q # p
      <4>1. session[q][s] = NoTree /\ pc'[q] = pc[q] /\ source'[q] = source[q]
        BY <1>1, <1>2, <3>2 DEF IInv, TypeOK
      <4> QED BY <4>1 DEF IInv, Places, Fresh
    <3> QED BY <3>1, <3>2
  <2>3. <<q, s>> # temporary[p]
    BY <1>1, <1>2, <1>3, <2>1
  <2> QED
    BY <1>1, <1>2, <1>3, <1>4, <2>2, <2>3 DEF Unused
<1>19. Suspects'
  <2>1. ASSUME NEW q \in Procs, q # p PROVE Suspect(q)'
    <3>1. Suspect(q) /\ TypeOK /\ Holds(q)
      BY DEF IInv, Suspects, Holdings
    <3>2. CASE pc[q] \in {"fetch", "fetched", "publish"} /\ q \notin misread
      <4>1. /\ source[q] \in Sources /\ source[q] # source[p]
            /\ pc'[q] = pc[q] /\ source'[q] = source[q] /\ prior'[q] = prior[q]
        BY <1>1, <1>2, <1>7, <2>1, <3>2 DEF Materializing
      <4>2. ASSUME pc[q] \in {"fetch", "fetched"}, Expected(q) # NoTree
            PROVE  BadAfter(<<source[q], Expected(q)>>)
        <5>1. <<source[q], Expected(q)>> \in Paths /\ Bad(<<source[q], Expected(q)>>)
          BY <3>1, <3>2, <4>1, <4>2, PathParts DEF TypeOK, Digests, Suspect, Expected
        <5> QED BY <1>10, <3>1, <4>1, <5>1, StillBad, PathParts
      <4>3. ASSUME pc[q] = "publish"
            PROVE  /\ BadAfter(<<source[q], content'[temporary'[q]]>>)
                   /\ content'[temporary'[q]] # NoTree
        <5>1. Target(q) \in Paths /\ Bad(Target(q)) /\ Fetched(q) \in Remote
          BY <3>1, <3>2, <4>1, <4>3, PathParts DEF Suspect, Holds, Holding, Target
        <5>2. content'[temporary'[q]] = Fetched(q)
          BY <1>1, <1>2, <1>8, <2>1, <4>3 DEF Holding, Fetched
        <5>3. BadAfter(Target(q))
          BY <1>10, <3>1, <4>1, <5>1, StillBad, PathParts DEF Target
        <5> QED BY <5>1, <5>2, <5>3, Distinct DEF Target
      <4> QED BY <4>1, <4>2, <4>3, SuspectAfter DEF Expected
    <3>3. CASE pc[q] \notin {"fetch", "fetched", "publish"} \/ q \in misread
      BY <1>1, <1>2, <2>1, <3>3 DEF Suspect
    <3> QED BY <3>2, <3>3
  <2>2. Suspect(p)'
    BY <1>1, <1>2 DEF IInv, Suspect
  <2> QED BY <2>1, <2>2 DEF Suspects
<1>20. Trust'
  <2>1. ASSUME NEW q \in Procs, q # p PROVE Trusting(q)'
    BY <1>1, <1>2, <1>4, <2>1 DEF IInv, Trusting, Trust, Expected, Fetched
  <2>2. Trusting(p)'
    BY <1>1, <1>2 DEF IInv, Trusting
  <2> QED BY <2>1, <2>2 DEF Trust
<1>21. TrustedDigestsKept'
  <2>1. prior[p][source[p]] \in {NoTree, Fetched(p)}
    BY <1>1 DEF IInv, Trust, Trusting, Expected
  <2> SUFFICES ASSUME NEW q \in Procs, NEW s \in Sources, prior[q][s] # NoTree
               PROVE  session'[q][s] \in {NoTree, prior[q][s]}
    BY <1>1 DEF TrustedDigestsKept
  <2>2. session[q][s] \in {NoTree, prior[q][s]}
    BY DEF IInv, TrustedDigestsKept
  <2>3. CASE q = p /\ s = source[p]
    BY <1>1, <1>2, <1>3, <2>1, <2>3 DEF IInv
  <2>4. CASE ~(q = p /\ s = source[p])
    BY <1>1, <1>2, <2>2, <2>4 DEF IInv
  <2> QED BY <2>3, <2>4
<1>22. LoadersSound'
  BY <1>1, <1>9, LoadersUndisturbed
<1>23. MaterializedIsStored'
  <2>1. GoodAfter(Target(p)) /\ Target(p) \in Paths
    BY <1>1, <1>2, <1>3, <1>6 DEF GoodAfter, IInv, TypeOK
  <2> SUFFICES ASSUME NEW q \in Procs, NEW s \in Sources, session'[q][s] # NoTree
               PROVE  \/ GoodAfter(<<s, session'[q][s]>>)
                      \/ <<s, session'[q][s]>> \in untrusted'
    BY Distinct, PathParts DEF MaterializedIsStored, Good, Stored, GoodAfter
  <2>2. CASE <<s, session'[q][s]>> = Target(p)
    BY <2>1, <2>2
  <2>3. CASE <<s, session'[q][s]>> # Target(p)
    <3>1. session'[q][s] = session[q][s] /\ <<s, session[q][s]>> \in Paths
      BY <1>1, <1>2, <1>3, PathParts, <2>3 DEF IInv, TypeOK, Digests
    <3>2. Good(<<s, session[q][s]>>) \/ <<s, session[q][s]>> \in untrusted
      BY <3>1 DEF IInv, MaterializedIsStored
    <3> QED
      BY <1>1, <1>2, <1>9, <2>3, <3>1, <3>2 DEF GoodKept, Good, Stored, GoodAfter
  <2> QED BY <2>2, <2>3
<1>24. NothingLeftBehind'
  <2> DEFINE Kept(d) == \/ \E path \in Paths : checkout'[path] = d
                        \/ \E q \in Procs : /\ d \in {temporary'[q], backup'[q]}
                                            /\ Running(q)' \/ pc'[q] = "crashed"
                        \/ d \in preserved'
  <2> SUFFICES ASSUME NEW d \in Dirs, content'[d] # Gone PROVE Kept(d)
    BY DEF NothingLeftBehind
  <2>1. CASE content[d] = Gone
    BY <1>1, <1>2, <2>1 DEF IInv
  <2>2. ASSUME NEW path \in Paths, checkout[path] = d PROVE Kept(d)
    BY <1>1, <1>2, <1>4, Distinct, <2>2 DEF IInv
  <2>3. ASSUME NEW q \in Procs, q # p, d \in {temporary[q], backup[q]},
               Running(q) \/ pc[q] = "crashed"
        PROVE  Kept(d)
    BY <1>1, <1>2, <2>3 DEF IInv, Running
  <2>4. CASE d \in {temporary[p], backup[p]}
    <3>1. CASE d = temporary[p]
      BY <1>1, <1>3, <3>1 DEF IInv, TypeOK
    <3>2. CASE d = backup[p]
      BY <1>1, <1>2, <3>2 DEF Running
    <3> QED BY <2>4, <3>1, <3>2
  <2>5. CASE d \in preserved
    BY <1>1, <2>5
  <2> HIDE DEF Kept
  <2> QED BY <2>1, <2>2, <2>3, <2>4, <2>5 DEF IInv, NothingLeftBehind
<1> QED
  BY <1>9, <1>11, <1>12, <1>13, <1>14, <1>15, <1>16, <1>17, <1>18, <1>19, <1>20, <1>21, <1>22, <1>23, <1>24
  DEF IInv, Places

LEMMA DeleteBackupStep ==
    ASSUME IInv, NEW p \in Procs, DeleteBackup(p)
    PROVE  IInv' /\ GoodKept
<1>1. /\ pc[p] = "swapped" /\ pc' = [pc EXCEPT ![p] = "resolve"]
      /\ content' = [content EXCEPT ![backup[p]] = Gone]
      /\ backup' = [backup EXCEPT ![p] = NoDir]
      /\ source' = [source EXCEPT ![p] = NoSource]
      /\ misread' = misread \ {p}
      /\ locked' = [s \in Sources |-> IF locked[s] = p THEN NoProc ELSE locked[s]]
      /\ UNCHANGED <<lockfile, checkout, untrusted, altered, prior, session, temporary,
                     preserved, reader>>
  BY DEF DeleteBackup, Unlock, Go
<1>2. /\ pc'[p] = "resolve" /\ backup'[p] = NoDir /\ source'[p] = NoSource
      /\ \A q \in Procs \ {p} : pc'[q] = pc[q] /\ backup'[q] = backup[q]
                               /\ source'[q] = source[q]
  BY <1>1 DEF IInv, TypeOK
<1>3. /\ source[p] \in Sources /\ session[p][source[p]] # NoTree /\ temporary[p] = NoDir
  BY <1>1 DEF IInv, Locks, Materializing, Holdings, Holds, Holding
<1>4. /\ backup[p] \in Dirs /\ backup[p] # NoDir
      /\ \A path \in Paths : checkout[path] # backup[p]
      /\ \A q \in Procs : q # p => backup[q] # backup[p]
      /\ \A q \in Procs : temporary[q] # backup[p]
  BY <1>1, RunSwaps
<1>5. \A d \in Dirs : d # backup[p] => content'[d] = content[d]
  BY <1>1 DEF IInv, TypeOK
<1>6. \A d \in Dirs : Unused(d) => Unused(d)'
  BY <1>1, <1>2, Distinct DEF Unused
<1>7. \A q \in Procs : q # p /\ pc[q] \in Materializing =>
        source[q] \in Sources /\ source[q] # source[p]
  BY <1>1, <1>2 DEF IInv, Locks, Materializing
<1>8. \A q \in Procs : q # p /\ pc[q] \in Holding =>
        temporary'[q] = temporary[q] /\ content'[temporary[q]] = content[temporary[q]]
  BY <1>1, <1>4, <1>5, RunHolds
<1>9. GoodKept
  <2> SUFFICES ASSUME NEW path \in Paths, Good(path), path \notin untrusted
               PROVE  /\ checkout'[path] = checkout[path]
                      /\ content'[checkout[path]] = path[2] /\ path \notin untrusted'
    BY DEF GoodKept
  <2>1. checkout[path] \in Dirs /\ content[checkout[path]] = path[2]
    BY Distinct, PathParts DEF IInv, TypeOK, Good, Stored
  <2> QED BY <1>1, <1>4, <1>5, <2>1
<1>10. OwnSource(p)
  <2>1. \A path \in Paths : checkout[path] # NoDir => checkout[path] \in Dirs
    BY DEF IInv, TypeOK
  <2> QED BY <1>1, <1>4, <1>5, <2>1 DEF OwnSource
<1>11. TypeOK'
  BY <1>1, <1>2, <1>4 DEF IInv, TypeOK
<1>12. Locks'
  BY <1>1, <1>2, <1>7, Distinct DEF IInv, Locks, Materializing
<1>13. Holdings'
  <2>1. ASSUME NEW q \in Procs, q # p PROVE Holds(q)'
    <3>1. /\ Holds(q) /\ checkout' = checkout /\ backup'[q] = backup[q]
          /\ pc'[q] = pc[q] /\ source'[q] = source[q] /\ temporary'[q] = temporary[q]
      BY <1>1, <1>2, <2>1 DEF IInv, Holdings
    <3>2. ASSUME pc[q] \in Holding PROVE Fetched(q)' = Fetched(q) /\ Target(q)' = Target(q)
      BY <1>1, <1>2, <1>8, <2>1, <3>1, <3>2 DEF Fetched, Target
    <3> QED BY <3>1, <3>2 DEF Holds, Holding
  <2>2. Holds(p)'
    BY <1>1, <1>2, <1>3 DEF Holds, Holding
  <2> QED BY <2>1, <2>2 DEF Holdings
<1>14. Places'
  <2>1. OneCheckout' /\ BackupAside' /\ OneBackup'
    BY <1>1, <1>2 DEF IInv, Places, OneCheckout, BackupAside, OneBackup
  <2>2. TemporaryAside'
    BY <1>1, <1>6 DEF IInv, Places, TemporaryAside, TypeOK
  <2>3. Fresh'
    <3> SUFFICES ASSUME NEW q \in Procs, NEW s \in Sources,
                        pc'[q] \notin {"failed", "crashed"}, session'[q][s] = NoTree,
                        pc'[q] \in Holding => source'[q] # s
                 PROVE  Unused(<<q, s>>)'
      BY DEF Fresh
    <3>1. Unused(<<q, s>>)
      BY <1>1, <1>2 DEF IInv, Places, Fresh, Holding
    <3> QED BY <1>6, <3>1, RunDirs
  <2> QED BY <2>1, <2>2, <2>3 DEF Places
<1>15. Suspects'
  <2>1. ASSUME NEW q \in Procs, q # p PROVE Suspect(q)'
    <3>1. Suspect(q) /\ TypeOK /\ Holds(q)
      BY DEF IInv, Suspects, Holdings
    <3>2. CASE pc[q] \in {"fetch", "fetched", "publish"} /\ q \notin misread
      <4>1. /\ source[q] \in Sources /\ source[q] # source[p]
            /\ pc'[q] = pc[q] /\ source'[q] = source[q] /\ prior'[q] = prior[q]
        BY <1>1, <1>2, <1>7, <2>1, <3>2 DEF Materializing
      <4>2. ASSUME pc[q] \in {"fetch", "fetched"}, Expected(q) # NoTree
            PROVE  BadAfter(<<source[q], Expected(q)>>)
        <5>1. <<source[q], Expected(q)>> \in Paths /\ Bad(<<source[q], Expected(q)>>)
          BY <3>1, <3>2, <4>1, <4>2, PathParts DEF TypeOK, Digests, Suspect, Expected
        <5> QED BY <1>10, <3>1, <4>1, <5>1, StillBad, PathParts
      <4>3. ASSUME pc[q] = "publish"
            PROVE  /\ BadAfter(<<source[q], content'[temporary'[q]]>>)
                   /\ content'[temporary'[q]] # NoTree
        <5>1. Target(q) \in Paths /\ Bad(Target(q)) /\ Fetched(q) \in Remote
          BY <3>1, <3>2, <4>1, <4>3, PathParts DEF Suspect, Holds, Holding, Target
        <5>2. content'[temporary'[q]] = Fetched(q)
          BY <1>1, <1>2, <1>8, <2>1, <4>3 DEF Holding, Fetched
        <5>3. BadAfter(Target(q))
          BY <1>10, <3>1, <4>1, <5>1, StillBad, PathParts DEF Target
        <5> QED BY <5>1, <5>2, <5>3, Distinct DEF Target
      <4> QED BY <4>1, <4>2, <4>3, SuspectAfter DEF Expected
    <3>3. CASE pc[q] \notin {"fetch", "fetched", "publish"} \/ q \in misread
      BY <1>1, <1>2, <2>1, <3>3 DEF Suspect
    <3> QED BY <3>2, <3>3
  <2>2. Suspect(p)'
    BY <1>1, <1>2 DEF IInv, Suspect
  <2> QED BY <2>1, <2>2 DEF Suspects
<1>16. Trust'
  <2>1. ASSUME NEW q \in Procs, q # p PROVE Trusting(q)'
    <3>1. /\ Trusting(q) /\ pc'[q] = pc[q] /\ source'[q] = source[q] /\ session' = session
          /\ prior' = prior
      BY <1>1, <1>2, <2>1 DEF IInv, Trust
    <3>2. ASSUME pc[q] \in Holding PROVE Fetched(q)' = Fetched(q)
      BY <1>1, <1>8, <2>1, <3>2 DEF Fetched
    <3> QED BY <3>1, <3>2 DEF Trusting, Expected, Holding
  <2>2. Trusting(p)'
    BY <1>1, <1>2 DEF Trusting
  <2> QED BY <2>1, <2>2 DEF Trust
<1>17. TrustedDigestsKept'
  BY <1>1 DEF IInv, TrustedDigestsKept
<1>18. LoadersSound'
  BY <1>1, <1>9, LoadersUndisturbed
<1>19. MaterializedIsStored'
  <2> SUFFICES ASSUME NEW q \in Procs, NEW s \in Sources, session[q][s] # NoTree
               PROVE  Good(<<s, session[q][s]>>)' \/ <<s, session[q][s]>> \in untrusted'
    BY <1>1 DEF MaterializedIsStored
  <2>1. /\ <<s, session[q][s]>> \in Paths
        /\ Good(<<s, session[q][s]>>) \/ <<s, session[q][s]>> \in untrusted
    BY PathParts DEF IInv, TypeOK, Digests, MaterializedIsStored
  <2> QED
    BY <1>1, <1>9, <2>1 DEF GoodKept, Good, Stored
<1>20. NothingLeftBehind'
  <2> SUFFICES ASSUME NEW d \in Dirs, content'[d] # Gone
               PROVE  \/ \E path \in Paths : checkout[path] = d
                      \/ \E q \in Procs : /\ d \in {temporary'[q], backup'[q]}
                                          /\ Running(q)' \/ pc'[q] = "crashed"
                      \/ d \in preserved
    BY <1>1 DEF NothingLeftBehind
  <2>1. d # backup[p] /\ content[d] # Gone /\ d # temporary[p]
    BY <1>1, <1>3, <1>5, Distinct DEF IInv, TypeOK
  <2>2. ASSUME NEW q \in Procs, q # p, d \in {temporary[q], backup[q]},
               Running(q) \/ pc[q] = "crashed"
        PROVE  /\ d \in {temporary'[q], backup'[q]}
               /\ Running(q)' \/ pc'[q] = "crashed"
    BY <1>1, <1>2, <2>2 DEF Running
  <2> QED BY <2>1, <2>2 DEF IInv, NothingLeftBehind
<1> QED
  BY <1>9, <1>11, <1>12, <1>13, <1>14, <1>15, <1>16, <1>17, <1>18, <1>19, <1>20 DEF IInv

LEMMA SwapFailsStep ==
    ASSUME IInv, NEW p \in Procs, SwapFails(p)
    PROVE  IInv' /\ GoodKept
<1>1. /\ pc[p] = "swap" /\ pc' = [pc EXCEPT ![p] = "rollback"]
      /\ UNCHANGED <<lockfile, checkout, content, untrusted, altered, locked, prior,
                     source, session, temporary, backup, preserved, misread, reader>>
  BY DEF SwapFails, Unlock, Go, disk, writers
<1>2. /\ pc'[p] = "rollback"
      /\ \A q \in Procs \ {p} : pc'[q] = pc[q]
  BY <1>1 DEF IInv, TypeOK
<1>3. GoodKept
  BY <1>1, <1>2, Distinct, PathParts DEF GoodKept, IInv, Good, Stored
<1>4. OwnSource(p)
  BY <1>1, <1>2 DEF OwnSource, IInv
<1>5. TypeOK'
  BY <1>1, <1>2 DEF IInv, TypeOK
<1>6. Locks'
  BY <1>1, <1>2 DEF IInv, Locks, Materializing
<1>7. Holdings'
  <2>1. ASSUME NEW q \in Procs, q # p PROVE Holds(q)'
    BY <1>1, <1>2, <2>1 DEF IInv, Holds, Holdings, Target, Fetched
  <2>2. Holds(p)'
    BY <1>1, <1>2 DEF IInv, Holds, Holdings, Holding, Target, Fetched
  <2> QED BY <2>1, <2>2 DEF Holdings
<1>8. OneCheckout'
  BY <1>1, <1>2 DEF IInv, OneCheckout, Places
<1>9. BackupAside'
  BY <1>1, <1>2 DEF IInv, BackupAside, Places
<1>10. OneBackup'
  BY <1>1, <1>2 DEF IInv, OneBackup, Places
<1>11. TemporaryAside'
  BY <1>1, <1>2 DEF IInv, TemporaryAside, Places, Unused
<1>12. Fresh'
  BY <1>1, <1>2 DEF IInv, Fresh, Places, Unused, Holding
<1>13. Suspects'
  <2>1. ASSUME NEW q \in Procs, q # p PROVE Suspect(q)'
    BY <1>1, <1>2, <2>1 DEF IInv, Suspect, Suspects, Bad, Expected, Target, Fetched, Good,
       Stored
  <2>2. Suspect(p)'
    BY <1>1, <1>2 DEF IInv, Suspect
  <2> QED BY <2>1, <2>2 DEF Suspects
<1>14. Trust'
  <2>1. ASSUME NEW q \in Procs, q # p PROVE Trusting(q)'
    BY <1>1, <1>2, <2>1 DEF IInv, Trusting, Trust, Expected, Fetched
  <2>2. Trusting(p)'
    BY <1>1, <1>2 DEF IInv, Trusting, Trust, Expected, Fetched
  <2> QED BY <2>1, <2>2 DEF Trust
<1>15. TrustedDigestsKept'
  BY <1>1, <1>2 DEF IInv, TrustedDigestsKept
<1>16. LoadersSound'
  BY <1>1, <1>3, LoadersUndisturbed
<1>17. MaterializedIsStored'
  <2> SUFFICES ASSUME NEW q \in Procs, NEW s \in Sources, session[q][s] # NoTree
               PROVE  Good(<<s, session[q][s]>>)' \/ <<s, session[q][s]>> \in untrusted'
    BY <1>1 DEF MaterializedIsStored
  <2>1. /\ <<s, session[q][s]>> \in Paths
        /\ Good(<<s, session[q][s]>>) \/ <<s, session[q][s]>> \in untrusted
    BY PathParts DEF IInv, TypeOK, Digests, MaterializedIsStored
  <2> QED
    BY <1>1, <2>1 DEF GoodKept, Good, Stored
<1>18. NothingLeftBehind'
  <2> DEFINE Kept(d) == \/ \E path \in Paths : checkout'[path] = d
                        \/ \E q \in Procs : /\ d \in {temporary'[q], backup'[q]}
                                            /\ Running(q)' \/ pc'[q] = "crashed"
                        \/ d \in preserved'
  <2> SUFFICES ASSUME NEW d \in Dirs, content'[d] # Gone PROVE Kept(d)
    BY DEF NothingLeftBehind
  <2>1. CASE content[d] = Gone
    BY <1>1, <1>2, <2>1 DEF IInv
  <2>2. ASSUME NEW path \in Paths, checkout[path] = d PROVE Kept(d)
    BY <1>1, <1>2, <2>2 DEF IInv
  <2>3. ASSUME NEW q \in Procs, q # p, d \in {temporary[q], backup[q]},
               Running(q) \/ pc[q] = "crashed"
        PROVE  Kept(d)
    BY <1>1, <1>2, <2>3 DEF IInv, Running
  <2>4. CASE d \in {temporary[p], backup[p]}
    BY <1>1, <1>2, <2>4 DEF IInv, Running
  <2>5. CASE d \in preserved
    BY <1>1, <2>5
  <2> HIDE DEF Kept
  <2> QED BY <2>1, <2>2, <2>3, <2>4, <2>5 DEF IInv, NothingLeftBehind
<1> QED
  BY <1>3, <1>5, <1>6, <1>7, <1>8, <1>9, <1>10, <1>11, <1>12, <1>13, <1>14, <1>15, <1>16, <1>17, <1>18
  DEF IInv, Places

LEMMA RollbackRestoresStep ==
    ASSUME IInv, NEW p \in Procs, Rollback(p), preserved' = preserved,
           checkout' = [checkout EXCEPT ![Target(p)] = backup[p]]
    PROVE  IInv' /\ GoodKept
<1>1. /\ pc[p] = "rollback" /\ pc' = [pc EXCEPT ![p] = "failed"]
      /\ checkout' = [checkout EXCEPT ![Target(p)] = backup[p]]
      /\ backup' = [backup EXCEPT ![p] = NoDir]
      /\ content' = Deleted(p)
      /\ temporary' = [temporary EXCEPT ![p] = NoDir]
      /\ source' = [source EXCEPT ![p] = NoSource]
      /\ misread' = misread \ {p}
      /\ locked' = [s \in Sources |-> IF locked[s] = p THEN NoProc ELSE locked[s]]
      /\ UNCHANGED <<lockfile, untrusted, altered, prior, session, preserved, reader>>
  BY DEF Rollback, Failed, Unlock, Go, disk, writers
<1>2. /\ pc'[p] = "failed" /\ backup'[p] = NoDir /\ temporary'[p] = NoDir
      /\ source'[p] = NoSource
      /\ \A q \in Procs \ {p} : pc'[q] = pc[q] /\ backup'[q] = backup[q]
                               /\ temporary'[q] = temporary[q] /\ source'[q] = source[q]
  BY <1>1 DEF IInv, TypeOK
<1>3. /\ source[p] \in Sources /\ session[p][source[p]] = NoTree
      /\ temporary[p] = <<p, source[p]>> /\ temporary[p] \in Dirs /\ temporary[p] # NoDir
      /\ Fetched(p) \in Remote /\ content[temporary[p]] = Fetched(p)
      /\ Target(p) \in Paths /\ Target(p)[1] = source[p] /\ Target(p)[2] = Fetched(p)
      /\ \A path \in Paths : checkout[path] # temporary[p]
      /\ \A q \in Procs : backup[q] # temporary[p]
  BY <1>1, RunHolds DEF Holding
<1>4. /\ backup[p] \in Dirs /\ backup[p] # NoDir
      /\ checkout[Target(p)] = NoDir
      /\ \A path \in Paths : checkout[path] # backup[p]
      /\ \A q \in Procs : q # p => backup[q] # backup[p]
      /\ \A q \in Procs : temporary[q] # backup[p]
  BY <1>1, RunSwaps
<1>5. \A q \in Procs : q # p => temporary[q] # temporary[p]
  BY <1>1, <1>2, <1>3, OwnTemporary
<1>6. content' = [content EXCEPT ![temporary[p]] = Gone]
  BY <1>1, <1>2, <1>3 DEF Deleted
<1>7. \A d \in Dirs : Unused(d) /\ d # temporary[p] =>
        /\ \A path \in Paths : checkout'[path] # d
        /\ \A q \in Procs : backup'[q] # d
  BY <1>1, <1>2, <1>3, <1>4 DEF IInv, Unused
<1>8. \A q \in Procs : q # p /\ pc[q] \in Materializing =>
        source[q] \in Sources /\ source[q] # source[p]
  BY <1>1, <1>2 DEF IInv, Locks, Materializing
<1>9. \A q \in Procs : q # p /\ pc[q] \in Holding =>
        temporary'[q] = temporary[q] /\ content'[temporary[q]] = content[temporary[q]]
  BY <1>1, <1>2, <1>5, <1>6 DEF IInv
<1>10. GoodKept
  <2> SUFFICES ASSUME NEW path \in Paths, Good(path), path \notin untrusted
               PROVE  /\ checkout'[path] = checkout[path]
                      /\ content'[checkout[path]] = path[2] /\ path \notin untrusted'
    BY DEF GoodKept
  <2>1. path # Target(p)
    BY <1>1, <1>2, <1>4, Distinct, PathParts DEF IInv, Good, Stored
  <2>2. checkout[path] \in Dirs /\ content[checkout[path]] = path[2]
    BY Distinct, PathParts DEF IInv, TypeOK, Good, Stored
  <2> QED
    BY <1>1, <1>2, <1>3, <1>6, <2>1, <2>2 DEF IInv
<1>11. OwnSource(p)
  BY <1>1, <1>2, <1>3, <1>6 DEF OwnSource, IInv
<1>12. TypeOK'
  BY <1>1, <1>2, <1>3, <1>6 DEF IInv, TypeOK
<1>13. Locks'
  BY <1>1, <1>2, Distinct DEF IInv, Locks, Materializing
<1>14. Holdings'
  <2>1. ASSUME NEW q \in Procs, q # p PROVE Holds(q)'
    BY <1>1, <1>2, <1>5, <1>6, <2>1 DEF IInv, Holds, Holdings, Locks, Materializing, Target,
       Fetched
  <2>2. Holds(p)'
    BY <1>1, <1>2 DEF IInv, Holds, Holding
  <2> QED BY <2>1, <2>2 DEF Holdings
<1>15. OneCheckout'
  BY <1>1, <1>2 DEF IInv, OneCheckout, Places, BackupAside
<1>16. BackupAside'
  BY <1>1, <1>2 DEF IInv, BackupAside, Places, OneBackup
<1>17. OneBackup'
  BY <1>1, <1>2 DEF IInv, OneBackup, Places
<1>18. TemporaryAside'
  BY <1>1, <1>2 DEF IInv, TemporaryAside, Places, Unused
<1>19. Fresh'
  BY <1>1, <1>2, <1>3, <1>4 DEF IInv, Fresh, Places, Unused
<1>20. Suspects'
  <2>1. ASSUME NEW q \in Procs, q # p PROVE Suspect(q)'
    <3>1. Suspect(q) /\ TypeOK /\ Holds(q)
      BY DEF IInv, Suspects, Holdings
    <3>2. CASE pc[q] \in {"fetch", "fetched", "publish"} /\ q \notin misread
      <4>1. /\ source[q] \in Sources /\ source[q] # source[p]
            /\ pc'[q] = pc[q] /\ source'[q] = source[q] /\ prior'[q] = prior[q]
        BY <1>1, <1>2, <1>8, <2>1, <3>2 DEF Materializing
      <4>2. ASSUME pc[q] \in {"fetch", "fetched"}, Expected(q) # NoTree
            PROVE  BadAfter(<<source[q], Expected(q)>>)
        <5>1. <<source[q], Expected(q)>> \in Paths /\ Bad(<<source[q], Expected(q)>>)
          BY <3>1, <3>2, <4>1, <4>2, PathParts DEF TypeOK, Digests, Suspect, Expected
        <5> QED BY <1>11, <3>1, <4>1, <5>1, StillBad, PathParts
      <4>3. ASSUME pc[q] = "publish"
            PROVE  /\ BadAfter(<<source[q], content'[temporary'[q]]>>)
                   /\ content'[temporary'[q]] # NoTree
        <5>1. Target(q) \in Paths /\ Bad(Target(q)) /\ Fetched(q) \in Remote
          BY <3>1, <3>2, <4>1, <4>3, PathParts DEF Suspect, Holds, Holding, Target
        <5>2. content'[temporary'[q]] = Fetched(q)
          BY <1>1, <1>2, <1>9, <2>1, <4>3 DEF Holding, Fetched
        <5>3. BadAfter(Target(q))
          BY <1>11, <3>1, <4>1, <5>1, StillBad, PathParts DEF Target
        <5> QED BY <5>1, <5>2, <5>3, Distinct DEF Target
      <4> QED BY <4>1, <4>2, <4>3, SuspectAfter DEF Expected
    <3>3. CASE pc[q] \notin {"fetch", "fetched", "publish"} \/ q \in misread
      BY <1>1, <1>2, <2>1, <3>3 DEF Suspect
    <3> QED BY <3>2, <3>3
  <2>2. Suspect(p)'
    BY <1>1, <1>2 DEF IInv, Suspect
  <2> QED BY <2>1, <2>2 DEF Suspects
<1>21. Trust'
  <2>1. ASSUME NEW q \in Procs, q # p PROVE Trusting(q)'
    BY <1>1, <1>2, <1>5, <1>6, <2>1 DEF IInv, Trusting, Trust, Expected, Fetched
  <2>2. Trusting(p)'
    BY <1>1, <1>2 DEF IInv, Trusting
  <2> QED BY <2>1, <2>2 DEF Trust
<1>22. TrustedDigestsKept'
  BY <1>1, <1>2 DEF IInv, TrustedDigestsKept
<1>23. LoadersSound'
  BY <1>1, <1>10, LoadersUndisturbed
<1>24. MaterializedIsStored'
  <2> SUFFICES ASSUME NEW q \in Procs, NEW s \in Sources, session[q][s] # NoTree
               PROVE  Good(<<s, session[q][s]>>)' \/ <<s, session[q][s]>> \in untrusted'
    BY <1>1 DEF MaterializedIsStored
  <2>1. /\ <<s, session[q][s]>> \in Paths
        /\ Good(<<s, session[q][s]>>) \/ <<s, session[q][s]>> \in untrusted
    BY PathParts DEF IInv, TypeOK, Digests, MaterializedIsStored
  <2> QED
    BY <1>1, <1>10, <2>1 DEF GoodKept, Good, Stored
<1>25. NothingLeftBehind'
  <2> DEFINE Kept(d) == \/ \E path \in Paths : checkout'[path] = d
                        \/ \E q \in Procs : /\ d \in {temporary'[q], backup'[q]}
                                            /\ Running(q)' \/ pc'[q] = "crashed"
                        \/ d \in preserved'
  <2> SUFFICES ASSUME NEW d \in Dirs, content'[d] # Gone PROVE Kept(d)
    BY DEF NothingLeftBehind
  <2>1. CASE content[d] = Gone
    BY <1>1, <1>2, <1>6, <2>1 DEF IInv
  <2>2. ASSUME NEW path \in Paths, checkout[path] = d PROVE Kept(d)
    BY <1>1, <1>2, <1>4, Distinct, <2>2 DEF IInv
  <2>3. ASSUME NEW q \in Procs, q # p, d \in {temporary[q], backup[q]},
               Running(q) \/ pc[q] = "crashed"
        PROVE  Kept(d)
    BY <1>1, <1>2, <2>3 DEF IInv, Running
  <2>4. CASE d \in {temporary[p], backup[p]}
    BY <1>1, <1>2, <1>3, <1>6, <2>4 DEF IInv, TypeOK
  <2>5. CASE d \in preserved
    BY <1>1, <2>5
  <2> HIDE DEF Kept
  <2> QED BY <2>1, <2>2, <2>3, <2>4, <2>5 DEF IInv, NothingLeftBehind
<1> QED
  BY <1>10, <1>12, <1>13, <1>14, <1>15, <1>16, <1>17, <1>18, <1>19, <1>20, <1>21, <1>22, <1>23, <1>24, <1>25
  DEF IInv, Places

LEMMA RollbackPreservesStep ==
    ASSUME IInv, NEW p \in Procs, Rollback(p), preserved' = preserved \cup {backup[p]},
           checkout' = checkout
    PROVE  IInv' /\ GoodKept
<1>1. /\ pc[p] = "rollback" /\ pc' = [pc EXCEPT ![p] = "failed"]
      /\ preserved' = preserved \cup {backup[p]}
      /\ backup' = [backup EXCEPT ![p] = NoDir]
      /\ content' = Deleted(p)
      /\ temporary' = [temporary EXCEPT ![p] = NoDir]
      /\ source' = [source EXCEPT ![p] = NoSource]
      /\ misread' = misread \ {p}
      /\ locked' = [s \in Sources |-> IF locked[s] = p THEN NoProc ELSE locked[s]]
      /\ UNCHANGED <<lockfile, checkout, untrusted, altered, prior, session, reader>>
  BY DEF Rollback, Failed, Unlock, Go, disk, writers
<1>2. /\ pc'[p] = "failed" /\ backup'[p] = NoDir /\ temporary'[p] = NoDir
      /\ source'[p] = NoSource
      /\ \A q \in Procs \ {p} : pc'[q] = pc[q] /\ backup'[q] = backup[q]
                               /\ temporary'[q] = temporary[q] /\ source'[q] = source[q]
  BY <1>1 DEF IInv, TypeOK
<1>3. /\ source[p] \in Sources /\ session[p][source[p]] = NoTree
      /\ temporary[p] = <<p, source[p]>> /\ temporary[p] \in Dirs /\ temporary[p] # NoDir
      /\ Fetched(p) \in Remote /\ content[temporary[p]] = Fetched(p)
      /\ Target(p) \in Paths /\ Target(p)[1] = source[p] /\ Target(p)[2] = Fetched(p)
      /\ \A path \in Paths : checkout[path] # temporary[p]
      /\ \A q \in Procs : backup[q] # temporary[p]
  BY <1>1, RunHolds DEF Holding
<1>4. /\ backup[p] \in Dirs /\ backup[p] # NoDir
      /\ checkout[Target(p)] = NoDir
      /\ \A path \in Paths : checkout[path] # backup[p]
      /\ \A q \in Procs : q # p => backup[q] # backup[p]
      /\ \A q \in Procs : temporary[q] # backup[p]
  BY <1>1, RunSwaps
<1>5. \A q \in Procs : q # p => temporary[q] # temporary[p]
  BY <1>1, <1>2, <1>3, OwnTemporary
<1>6. content' = [content EXCEPT ![temporary[p]] = Gone]
  BY <1>1, <1>2, <1>3 DEF Deleted
<1>7. \A d \in Dirs : Unused(d) /\ d # temporary[p] =>
        /\ \A path \in Paths : checkout'[path] # d
        /\ \A q \in Procs : backup'[q] # d
  BY <1>1, <1>2, <1>3, <1>4 DEF IInv, Unused
<1>8. \A q \in Procs : q # p /\ pc[q] \in Materializing =>
        source[q] \in Sources /\ source[q] # source[p]
  BY <1>1, <1>2 DEF IInv, Locks, Materializing
<1>9. \A q \in Procs : q # p /\ pc[q] \in Holding =>
        temporary'[q] = temporary[q] /\ content'[temporary[q]] = content[temporary[q]]
  BY <1>1, <1>2, <1>5, <1>6 DEF IInv
<1>10. GoodKept
  <2> SUFFICES ASSUME NEW path \in Paths, Good(path), path \notin untrusted
               PROVE  /\ checkout'[path] = checkout[path]
                      /\ content'[checkout[path]] = path[2] /\ path \notin untrusted'
    BY DEF GoodKept
  <2>1. path # Target(p)
    BY <1>1, <1>2, <1>4, Distinct, PathParts DEF IInv, Good, Stored
  <2>2. checkout[path] \in Dirs /\ content[checkout[path]] = path[2]
    BY Distinct, PathParts DEF IInv, TypeOK, Good, Stored
  <2> QED
    BY <1>1, <1>2, <1>3, <1>6, <2>1, <2>2 DEF IInv
<1>11. OwnSource(p)
  BY <1>1, <1>2, <1>3, <1>6 DEF OwnSource, IInv
<1>12. TypeOK'
  BY <1>1, <1>2, <1>3, <1>4, <1>6 DEF IInv, TypeOK
<1>13. Locks'
  BY <1>1, <1>2, Distinct DEF IInv, Locks, Materializing
<1>14. Holdings'
  <2>1. ASSUME NEW q \in Procs, q # p PROVE Holds(q)'
    BY <1>1, <1>2, <1>3, <1>4, <1>5, <1>6, <1>7, <1>8, RunDirs, <1>11, <2>1 DEF IInv, Holds,
       OwnSource, Holdings, Holding, Target, Fetched
  <2>2. Holds(p)'
    BY <1>1, <1>2 DEF IInv, Holds, Holding
  <2> QED BY <2>1, <2>2 DEF Holdings
<1>15. OneCheckout'
  BY <1>1, <1>2 DEF IInv, OneCheckout, Places
<1>16. BackupAside'
  BY <1>1, <1>2 DEF IInv, BackupAside, Places
<1>17. OneBackup'
  BY <1>1, <1>2 DEF IInv, OneBackup, Places
<1>18. TemporaryAside'
  BY <1>1, <1>2 DEF IInv, TemporaryAside, Places, Unused
<1>19. Fresh'
  BY <1>1, <1>2, <1>3, <1>4 DEF IInv, Fresh, Places, Unused
<1>20. Suspects'
  <2>1. ASSUME NEW q \in Procs, q # p PROVE Suspect(q)'
    <3>1. Suspect(q) /\ TypeOK /\ Holds(q)
      BY DEF IInv, Suspects, Holdings
    <3>2. CASE pc[q] \in {"fetch", "fetched", "publish"} /\ q \notin misread
      <4>1. /\ source[q] \in Sources /\ source[q] # source[p]
            /\ pc'[q] = pc[q] /\ source'[q] = source[q] /\ prior'[q] = prior[q]
        BY <1>1, <1>2, <1>8, <2>1, <3>2 DEF Materializing
      <4>2. ASSUME pc[q] \in {"fetch", "fetched"}, Expected(q) # NoTree
            PROVE  BadAfter(<<source[q], Expected(q)>>)
        <5>1. <<source[q], Expected(q)>> \in Paths /\ Bad(<<source[q], Expected(q)>>)
          BY <3>1, <3>2, <4>1, <4>2, PathParts DEF TypeOK, Digests, Suspect, Expected
        <5> QED BY <1>11, <3>1, <4>1, <5>1, StillBad, PathParts
      <4>3. ASSUME pc[q] = "publish"
            PROVE  /\ BadAfter(<<source[q], content'[temporary'[q]]>>)
                   /\ content'[temporary'[q]] # NoTree
        <5>1. Target(q) \in Paths /\ Bad(Target(q)) /\ Fetched(q) \in Remote
          BY <3>1, <3>2, <4>1, <4>3, PathParts DEF Suspect, Holds, Holding, Target
        <5>2. content'[temporary'[q]] = Fetched(q)
          BY <1>1, <1>2, <1>9, <2>1, <4>3 DEF Holding, Fetched
        <5>3. BadAfter(Target(q))
          BY <1>11, <3>1, <4>1, <5>1, StillBad, PathParts DEF Target
        <5> QED BY <5>1, <5>2, <5>3, Distinct DEF Target
      <4> QED BY <4>1, <4>2, <4>3, SuspectAfter DEF Expected
    <3>3. CASE pc[q] \notin {"fetch", "fetched", "publish"} \/ q \in misread
      BY <1>1, <1>2, <2>1, <3>3 DEF Suspect
    <3> QED BY <3>2, <3>3
  <2>2. Suspect(p)'
    BY <1>1, <1>2 DEF IInv, Suspect
  <2> QED BY <2>1, <2>2 DEF Suspects
<1>21. Trust'
  <2>1. ASSUME NEW q \in Procs, q # p PROVE Trusting(q)'
    BY <1>1, <1>2, <1>5, <1>6, <2>1 DEF IInv, Trusting, Trust, Expected, Fetched
  <2>2. Trusting(p)'
    BY <1>1, <1>2 DEF IInv, Trusting
  <2> QED BY <2>1, <2>2 DEF Trust
<1>22. TrustedDigestsKept'
  BY <1>1, <1>2 DEF IInv, TrustedDigestsKept
<1>23. LoadersSound'
  BY <1>1, <1>10, LoadersUndisturbed
<1>24. MaterializedIsStored'
  <2> SUFFICES ASSUME NEW q \in Procs, NEW s \in Sources, session[q][s] # NoTree
               PROVE  Good(<<s, session[q][s]>>)' \/ <<s, session[q][s]>> \in untrusted'
    BY <1>1 DEF MaterializedIsStored
  <2>1. /\ <<s, session[q][s]>> \in Paths
        /\ Good(<<s, session[q][s]>>) \/ <<s, session[q][s]>> \in untrusted
    BY PathParts DEF IInv, TypeOK, Digests, MaterializedIsStored
  <2> QED
    BY <1>1, <1>10, <2>1 DEF GoodKept, Good, Stored
<1>25. NothingLeftBehind'
  <2> DEFINE Kept(d) == \/ \E path \in Paths : checkout'[path] = d
                        \/ \E q \in Procs : /\ d \in {temporary'[q], backup'[q]}
                                            /\ Running(q)' \/ pc'[q] = "crashed"
                        \/ d \in preserved'
  <2> SUFFICES ASSUME NEW d \in Dirs, content'[d] # Gone PROVE Kept(d)
    BY DEF NothingLeftBehind
  <2>1. CASE content[d] = Gone
    BY <1>1, <1>2, <1>6, <2>1 DEF IInv
  <2>2. ASSUME NEW path \in Paths, checkout[path] = d PROVE Kept(d)
    BY <1>1, <1>2, <2>2 DEF IInv
  <2>3. ASSUME NEW q \in Procs, q # p, d \in {temporary[q], backup[q]},
               Running(q) \/ pc[q] = "crashed"
        PROVE  Kept(d)
    BY <1>1, <1>2, <2>3 DEF IInv, Running
  <2>4. CASE d \in {temporary[p], backup[p]}
    BY <1>1, <1>2, <1>6, <2>4 DEF IInv, TypeOK
  <2>5. CASE d \in preserved
    BY <1>1, <2>5
  <2> HIDE DEF Kept
  <2> QED BY <2>1, <2>2, <2>3, <2>4, <2>5 DEF IInv, NothingLeftBehind
<1> QED
  BY <1>10, <1>12, <1>13, <1>14, <1>15, <1>16, <1>17, <1>18, <1>19, <1>20, <1>21, <1>22, <1>23, <1>24, <1>25
  DEF IInv, Places

LEMMA ValidateLockStep ==
    ASSUME IInv, NEW p \in Procs, ValidateLock(p)
    PROVE  IInv' /\ GoodKept
<1>1. /\ pc[p] = "resolve"
      /\ \A s \in Sources : session[p][s] # NoTree
      /\ \E to \in {"done", "validated", "failed"} : pc' = [pc EXCEPT ![p] = to]
      /\ UNCHANGED <<lockfile, checkout, content, untrusted, altered, locked, prior,
                     source, session, temporary, backup, preserved, misread, reader>>
  BY DEF ValidateLock, Unlock, Go, disk, writers
<1>2. pc'[p] \in {"done", "validated", "failed"} /\ \A q \in Procs \ {p} : pc'[q] = pc[q]
  BY <1>1 DEF IInv, TypeOK
<1>3. temporary[p] = NoDir /\ backup[p] = NoDir
  BY <1>1 DEF IInv, Holdings, Holds, Holding
<1>4. GoodKept
  BY <1>1, <1>2, Distinct, PathParts DEF GoodKept, IInv, Good, Stored
<1>5. OwnSource(p)
  BY <1>1, <1>2 DEF OwnSource, IInv
<1>6. TypeOK'
  BY <1>1, <1>2 DEF IInv, TypeOK
<1>7. Locks'
  BY <1>1, <1>2 DEF IInv, Locks, Materializing
<1>8. Holdings'
  <2>1. ASSUME NEW q \in Procs, q # p PROVE Holds(q)'
    BY <1>1, <1>2, <2>1 DEF IInv, Holds, Holdings, Target, Fetched
  <2>2. Holds(p)'
    BY <1>1, <1>2 DEF IInv, Holds, Holdings, Holding
  <2> QED BY <2>1, <2>2 DEF Holdings
<1>9. OneCheckout'
  BY <1>1, <1>2 DEF IInv, OneCheckout, Places
<1>10. BackupAside'
  BY <1>1, <1>2 DEF IInv, BackupAside, Places
<1>11. OneBackup'
  BY <1>1, <1>2 DEF IInv, OneBackup, Places
<1>12. TemporaryAside'
  BY <1>1, <1>2 DEF IInv, TemporaryAside, Places, Unused
<1>13. Fresh'
  BY <1>1, <1>2 DEF IInv, Fresh, Places, Unused
<1>14. Suspects'
  <2>1. ASSUME NEW q \in Procs, q # p PROVE Suspect(q)'
    BY <1>1, <1>2, <2>1 DEF IInv, Suspect, Suspects, Bad, Expected, Target, Fetched, Good,
       Stored
  <2>2. Suspect(p)'
    BY <1>1, <1>2 DEF IInv, Suspect
  <2> QED BY <2>1, <2>2 DEF Suspects
<1>15. Trust'
  <2>1. ASSUME NEW q \in Procs, q # p PROVE Trusting(q)'
    BY <1>1, <1>2, <2>1 DEF IInv, Trusting, Trust, Expected, Fetched
  <2>2. Trusting(p)'
    BY <1>1, <1>2 DEF IInv, Trusting
  <2> QED BY <2>1, <2>2 DEF Trust
<1>16. TrustedDigestsKept'
  BY <1>1, <1>2 DEF IInv, TrustedDigestsKept
<1>17. LoadersSound'
  BY <1>1, <1>4, LoadersUndisturbed
<1>18. MaterializedIsStored'
  <2> SUFFICES ASSUME NEW q \in Procs, NEW s \in Sources, session[q][s] # NoTree
               PROVE  Good(<<s, session[q][s]>>)' \/ <<s, session[q][s]>> \in untrusted'
    BY <1>1 DEF MaterializedIsStored
  <2>1. /\ <<s, session[q][s]>> \in Paths
        /\ Good(<<s, session[q][s]>>) \/ <<s, session[q][s]>> \in untrusted
    BY PathParts DEF IInv, TypeOK, Digests, MaterializedIsStored
  <2> QED
    BY <1>1, <2>1 DEF GoodKept, Good, Stored
<1>19. NothingLeftBehind'
  <2> DEFINE Kept(d) == \/ \E path \in Paths : checkout'[path] = d
                        \/ \E q \in Procs : /\ d \in {temporary'[q], backup'[q]}
                                            /\ Running(q)' \/ pc'[q] = "crashed"
                        \/ d \in preserved'
  <2> SUFFICES ASSUME NEW d \in Dirs, content'[d] # Gone PROVE Kept(d)
    BY DEF NothingLeftBehind
  <2>1. CASE content[d] = Gone
    BY <1>1, <1>2, <2>1 DEF IInv
  <2>2. ASSUME NEW path \in Paths, checkout[path] = d PROVE Kept(d)
    BY <1>1, <1>2, <2>2 DEF IInv
  <2>3. ASSUME NEW q \in Procs, q # p, d \in {temporary[q], backup[q]},
               Running(q) \/ pc[q] = "crashed"
        PROVE  Kept(d)
    BY <1>1, <1>2, <2>3 DEF IInv, Running
  <2>4. CASE d \in {temporary[p], backup[p]}
    BY <1>1, <1>2, <1>3, Distinct, <2>4 DEF IInv
  <2>5. CASE d \in preserved
    BY <1>1, <2>5
  <2> HIDE DEF Kept
  <2> QED BY <2>1, <2>2, <2>3, <2>4, <2>5 DEF IInv, NothingLeftBehind
<1> QED
  BY <1>4, <1>6, <1>7, <1>8, <1>9, <1>10, <1>11, <1>12, <1>13, <1>14, <1>15, <1>16, <1>17, <1>18, <1>19
  DEF IInv, Places

LEMMA ResolutionFailsStep ==
    ASSUME IInv, NEW p \in Procs, ResolutionFails(p)
    PROVE  IInv' /\ GoodKept
<1>1. /\ pc[p] = "resolve" /\ pc' = [pc EXCEPT ![p] = "failed"]
      /\ UNCHANGED <<lockfile, checkout, content, untrusted, altered, locked, prior,
                     source, session, temporary, backup, preserved, misread, reader>>
  BY DEF ResolutionFails, Unlock, Go, disk, writers
<1>2. /\ pc'[p] = "failed"
      /\ \A q \in Procs \ {p} : pc'[q] = pc[q]
  BY <1>1 DEF IInv, TypeOK
<1>3. temporary[p] = NoDir /\ backup[p] = NoDir
  BY <1>1 DEF IInv, Holdings, Holds, Holding
<1>4. GoodKept
  BY <1>1, <1>2, Distinct, PathParts DEF GoodKept, IInv, Good, Stored
<1>5. OwnSource(p)
  BY <1>1, <1>2 DEF OwnSource, IInv
<1>6. TypeOK'
  BY <1>1, <1>2 DEF IInv, TypeOK
<1>7. Locks'
  BY <1>1, <1>2 DEF IInv, Locks, Materializing
<1>8. Holdings'
  <2>1. ASSUME NEW q \in Procs, q # p PROVE Holds(q)'
    BY <1>1, <1>2, <2>1 DEF IInv, Holds, Holdings, Target, Fetched
  <2>2. Holds(p)'
    BY <1>1, <1>2 DEF IInv, Holds, Holdings, Holding
  <2> QED BY <2>1, <2>2 DEF Holdings
<1>9. OneCheckout'
  BY <1>1, <1>2 DEF IInv, OneCheckout, Places
<1>10. BackupAside'
  BY <1>1, <1>2 DEF IInv, BackupAside, Places
<1>11. OneBackup'
  BY <1>1, <1>2 DEF IInv, OneBackup, Places
<1>12. TemporaryAside'
  BY <1>1, <1>2 DEF IInv, TemporaryAside, Places, Unused
<1>13. Fresh'
  BY <1>1, <1>2 DEF IInv, Fresh, Places, Unused
<1>14. Suspects'
  <2>1. ASSUME NEW q \in Procs, q # p PROVE Suspect(q)'
    BY <1>1, <1>2, <2>1 DEF IInv, Suspect, Suspects, Bad, Expected, Target, Fetched, Good,
       Stored
  <2>2. Suspect(p)'
    BY <1>1, <1>2 DEF IInv, Suspect
  <2> QED BY <2>1, <2>2 DEF Suspects
<1>15. Trust'
  <2>1. ASSUME NEW q \in Procs, q # p PROVE Trusting(q)'
    BY <1>1, <1>2, <2>1 DEF IInv, Trusting, Trust, Expected, Fetched
  <2>2. Trusting(p)'
    BY <1>1, <1>2 DEF IInv, Trusting
  <2> QED BY <2>1, <2>2 DEF Trust
<1>16. TrustedDigestsKept'
  BY <1>1, <1>2 DEF IInv, TrustedDigestsKept
<1>17. LoadersSound'
  BY <1>1, <1>4, LoadersUndisturbed
<1>18. MaterializedIsStored'
  <2> SUFFICES ASSUME NEW q \in Procs, NEW s \in Sources, session[q][s] # NoTree
               PROVE  Good(<<s, session[q][s]>>)' \/ <<s, session[q][s]>> \in untrusted'
    BY <1>1 DEF MaterializedIsStored
  <2>1. /\ <<s, session[q][s]>> \in Paths
        /\ Good(<<s, session[q][s]>>) \/ <<s, session[q][s]>> \in untrusted
    BY PathParts DEF IInv, TypeOK, Digests, MaterializedIsStored
  <2> QED
    BY <1>1, <2>1 DEF GoodKept, Good, Stored
<1>19. NothingLeftBehind'
  <2> DEFINE Kept(d) == \/ \E path \in Paths : checkout'[path] = d
                        \/ \E q \in Procs : /\ d \in {temporary'[q], backup'[q]}
                                            /\ Running(q)' \/ pc'[q] = "crashed"
                        \/ d \in preserved'
  <2> SUFFICES ASSUME NEW d \in Dirs, content'[d] # Gone PROVE Kept(d)
    BY DEF NothingLeftBehind
  <2>1. CASE content[d] = Gone
    BY <1>1, <1>2, <2>1 DEF IInv
  <2>2. ASSUME NEW path \in Paths, checkout[path] = d PROVE Kept(d)
    BY <1>1, <1>2, <2>2 DEF IInv
  <2>3. ASSUME NEW q \in Procs, q # p, d \in {temporary[q], backup[q]},
               Running(q) \/ pc[q] = "crashed"
        PROVE  Kept(d)
    BY <1>1, <1>2, <2>3 DEF IInv, Running
  <2>4. CASE d \in {temporary[p], backup[p]}
    BY <1>1, <1>2, <1>3, Distinct, <2>4 DEF IInv
  <2>5. CASE d \in preserved
    BY <1>1, <2>5
  <2> HIDE DEF Kept
  <2> QED BY <2>1, <2>2, <2>3, <2>4, <2>5 DEF IInv, NothingLeftBehind
<1> QED
  BY <1>4, <1>6, <1>7, <1>8, <1>9, <1>10, <1>11, <1>12, <1>13, <1>14, <1>15, <1>16, <1>17, <1>18, <1>19
  DEF IInv, Places

LEMMA WriteLockStep ==
    ASSUME IInv, NEW p \in Procs, WriteLock(p)
    PROVE  IInv' /\ GoodKept
<1>1. /\ pc[p] = "validated" /\ pc' = [pc EXCEPT ![p] = "done"] /\ lockfile' = session[p]
      /\ UNCHANGED <<checkout, content, untrusted, altered, locked, prior, source,
                     session, temporary, backup, preserved, misread, reader>>
  BY DEF WriteLock, Unlock, Go, disk, writers
<1>2. /\ pc'[p] = "done"
      /\ \A q \in Procs \ {p} : pc'[q] = pc[q]
  BY <1>1 DEF IInv, TypeOK
<1>3. temporary[p] = NoDir /\ backup[p] = NoDir
  BY <1>1 DEF IInv, Holdings, Holds, Holding
<1>4. GoodKept
  BY <1>1, <1>2, Distinct, PathParts DEF GoodKept, IInv, Good, Stored
<1>5. OwnSource(p)
  BY <1>1, <1>2 DEF OwnSource, IInv
<1>6. TypeOK'
  BY <1>1, <1>2 DEF IInv, TypeOK
<1>7. Locks'
  BY <1>1, <1>2 DEF IInv, Locks, Materializing
<1>8. Holdings'
  <2>1. ASSUME NEW q \in Procs, q # p PROVE Holds(q)'
    BY <1>1, <1>2, <2>1 DEF IInv, Holds, Holdings, Target, Fetched
  <2>2. Holds(p)'
    BY <1>1, <1>2 DEF IInv, Holds, Holdings, Holding
  <2> QED BY <2>1, <2>2 DEF Holdings
<1>9. OneCheckout'
  BY <1>1, <1>2 DEF IInv, OneCheckout, Places
<1>10. BackupAside'
  BY <1>1, <1>2 DEF IInv, BackupAside, Places
<1>11. OneBackup'
  BY <1>1, <1>2 DEF IInv, OneBackup, Places
<1>12. TemporaryAside'
  BY <1>1, <1>2 DEF IInv, TemporaryAside, Places, Unused
<1>13. Fresh'
  BY <1>1, <1>2 DEF IInv, Fresh, Places, Unused, Holding
<1>14. Suspects'
  <2>1. ASSUME NEW q \in Procs, q # p PROVE Suspect(q)'
    BY <1>1, <1>2, <2>1 DEF IInv, Suspect, Suspects, Bad, Expected, Target, Fetched, Good,
       Stored
  <2>2. Suspect(p)'
    BY <1>1, <1>2 DEF IInv, Suspect
  <2> QED BY <2>1, <2>2 DEF Suspects
<1>15. Trust'
  <2>1. ASSUME NEW q \in Procs, q # p PROVE Trusting(q)'
    BY <1>1, <1>2, <2>1 DEF IInv, Trusting, Trust, Expected, Fetched
  <2>2. Trusting(p)'
    BY <1>1, <1>2 DEF IInv, Trusting, Trust
  <2> QED BY <2>1, <2>2 DEF Trust
<1>16. TrustedDigestsKept'
  BY <1>1, <1>2 DEF IInv, TrustedDigestsKept
<1>17. LoadersSound'
  BY <1>1, <1>4, LoadersUndisturbed
<1>18. MaterializedIsStored'
  <2> SUFFICES ASSUME NEW q \in Procs, NEW s \in Sources, session[q][s] # NoTree
               PROVE  Good(<<s, session[q][s]>>)' \/ <<s, session[q][s]>> \in untrusted'
    BY <1>1 DEF MaterializedIsStored
  <2>1. /\ <<s, session[q][s]>> \in Paths
        /\ Good(<<s, session[q][s]>>) \/ <<s, session[q][s]>> \in untrusted
    BY PathParts DEF IInv, TypeOK, Digests, MaterializedIsStored
  <2> QED
    BY <1>1, <2>1 DEF GoodKept, Good, Stored
<1>19. NothingLeftBehind'
  <2> DEFINE Kept(d) == \/ \E path \in Paths : checkout'[path] = d
                        \/ \E q \in Procs : /\ d \in {temporary'[q], backup'[q]}
                                            /\ Running(q)' \/ pc'[q] = "crashed"
                        \/ d \in preserved'
  <2> SUFFICES ASSUME NEW d \in Dirs, content'[d] # Gone PROVE Kept(d)
    BY DEF NothingLeftBehind
  <2>1. CASE content[d] = Gone
    BY <1>1, <1>2, <2>1 DEF IInv
  <2>2. ASSUME NEW path \in Paths, checkout[path] = d PROVE Kept(d)
    BY <1>1, <1>2, <2>2 DEF IInv
  <2>3. ASSUME NEW q \in Procs, q # p, d \in {temporary[q], backup[q]},
               Running(q) \/ pc[q] = "crashed"
        PROVE  Kept(d)
    BY <1>1, <1>2, <2>3 DEF IInv, Running
  <2>4. CASE d \in {temporary[p], backup[p]}
    BY <1>1, <1>2, <1>3, Distinct, <2>4 DEF IInv
  <2>5. CASE d \in preserved
    BY <1>1, <2>5
  <2> HIDE DEF Kept
  <2> QED BY <2>1, <2>2, <2>3, <2>4, <2>5 DEF IInv, NothingLeftBehind
<1> QED
  BY <1>4, <1>6, <1>7, <1>8, <1>9, <1>10, <1>11, <1>12, <1>13, <1>14, <1>15, <1>16, <1>17, <1>18, <1>19
  DEF IInv, Places

LEMMA CrashStep ==
    ASSUME IInv, NEW p \in Procs, Crash(p)
    PROVE  IInv' /\ GoodKept
<1>1. /\ Running(p) /\ pc' = [pc EXCEPT ![p] = "crashed"]
      /\ locked' = [s \in Sources |-> IF locked[s] = p THEN NoProc ELSE locked[s]]
      /\ UNCHANGED <<lockfile, checkout, content, untrusted, altered, prior, source,
                     session, temporary, backup, preserved, misread, reader>>
  BY DEF Crash, Unlock, Go, disk, writers
<1>2. /\ pc'[p] = "crashed"
      /\ \A q \in Procs \ {p} : pc'[q] = pc[q]
  BY <1>1 DEF IInv, TypeOK
<1>3. GoodKept
  BY <1>1, <1>2, Distinct, PathParts DEF GoodKept, IInv, Good, Stored
<1>4. OwnSource(p)
  BY <1>1, <1>2 DEF OwnSource, IInv
<1>5. TypeOK'
  BY <1>1, <1>2 DEF IInv, TypeOK
<1>6. Locks'
  BY <1>1, <1>2, Distinct DEF IInv, Locks, Materializing
<1>7. Holdings'
  <2>1. ASSUME NEW q \in Procs, q # p PROVE Holds(q)'
    BY <1>1, <1>2, <2>1 DEF IInv, Holds, Holdings, Target, Fetched
  <2>2. Holds(p)'
    BY <1>1, <1>2, Distinct, PathParts, RunDirs, <1>4 DEF IInv, Holds, OwnSource, Expected,
       Holdings, TypeOK, Digests, Locks, Materializing, Places, OneCheckout, BackupAside,
       OneBackup, TemporaryAside, Fresh, Unused, Holding, Target, Fetched
  <2> QED BY <2>1, <2>2 DEF Holdings
<1>8. OneCheckout'
  BY <1>1, <1>2 DEF IInv, OneCheckout, Places
<1>9. BackupAside'
  BY <1>1, <1>2 DEF IInv, BackupAside, Places
<1>10. OneBackup'
  BY <1>1, <1>2 DEF IInv, OneBackup, Places
<1>11. TemporaryAside'
  BY <1>1, <1>2 DEF IInv, TemporaryAside, Places, Unused
<1>12. Fresh'
  BY <1>1, <1>2 DEF IInv, Fresh, Places, Unused
<1>13. Suspects'
  <2>1. ASSUME NEW q \in Procs, q # p PROVE Suspect(q)'
    BY <1>1, <1>2, <2>1 DEF IInv, Suspect, Suspects, Bad, Expected, Target, Fetched, Good,
       Stored
  <2>2. Suspect(p)'
    BY <1>1, <1>2 DEF IInv, Suspect
  <2> QED BY <2>1, <2>2 DEF Suspects
<1>14. Trust'
  <2>1. ASSUME NEW q \in Procs, q # p PROVE Trusting(q)'
    BY <1>1, <1>2, <2>1 DEF IInv, Trusting, Trust, Expected, Fetched
  <2>2. Trusting(p)'
    BY <1>1, <1>2 DEF IInv, Trusting
  <2> QED BY <2>1, <2>2 DEF Trust
<1>15. TrustedDigestsKept'
  BY <1>1, <1>2 DEF IInv, TrustedDigestsKept
<1>16. LoadersSound'
  BY <1>1, <1>3, LoadersUndisturbed
<1>17. MaterializedIsStored'
  <2> SUFFICES ASSUME NEW q \in Procs, NEW s \in Sources, session[q][s] # NoTree
               PROVE  Good(<<s, session[q][s]>>)' \/ <<s, session[q][s]>> \in untrusted'
    BY <1>1 DEF MaterializedIsStored
  <2>1. /\ <<s, session[q][s]>> \in Paths
        /\ Good(<<s, session[q][s]>>) \/ <<s, session[q][s]>> \in untrusted
    BY PathParts DEF IInv, TypeOK, Digests, MaterializedIsStored
  <2> QED
    BY <1>1, <2>1 DEF GoodKept, Good, Stored
<1>18. NothingLeftBehind'
  <2> DEFINE Kept(d) == \/ \E path \in Paths : checkout'[path] = d
                        \/ \E q \in Procs : /\ d \in {temporary'[q], backup'[q]}
                                            /\ Running(q)' \/ pc'[q] = "crashed"
                        \/ d \in preserved'
  <2> SUFFICES ASSUME NEW d \in Dirs, content'[d] # Gone PROVE Kept(d)
    BY DEF NothingLeftBehind
  <2>1. CASE content[d] = Gone
    BY <1>1, <1>2, <2>1 DEF IInv
  <2>2. ASSUME NEW path \in Paths, checkout[path] = d PROVE Kept(d)
    BY <1>1, <1>2, <2>2 DEF IInv
  <2>3. ASSUME NEW q \in Procs, q # p, d \in {temporary[q], backup[q]},
               Running(q) \/ pc[q] = "crashed"
        PROVE  Kept(d)
    BY <1>1, <1>2, <2>3 DEF IInv, Running
  <2>4. CASE d \in {temporary[p], backup[p]}
    BY <1>1, <1>2, <2>4 DEF IInv
  <2>5. CASE d \in preserved
    BY <1>1, <2>5
  <2> HIDE DEF Kept
  <2> QED BY <2>1, <2>2, <2>3, <2>4, <2>5 DEF IInv, NothingLeftBehind
<1> QED
  BY <1>3, <1>5, <1>6, <1>7, <1>8, <1>9, <1>10, <1>11, <1>12, <1>13, <1>14, <1>15, <1>16, <1>17, <1>18
  DEF IInv, Places

-----------------------------------------------------------------------------
(* The steps of a lock run.                                                 *)

LEMMA InspectTrustedStep ==
    ASSUME IInv, NEW p \in Procs, InspectTrusted(p) PROVE IInv' /\ GoodKept
<1>1. /\ pc[p] = "locked" /\ source[p] \in Sources /\ temporary[p] = NoDir
      /\ UNCHANGED <<lockfile, checkout, altered, prior, backup, preserved, reader>>
  BY DEF InspectTrusted, IInv, Locks, Materializing, Holdings, Holds, Holding
<1>2. PICK path : path = <<source[p], Expected(p)>>
  OBVIOUS
<1>3. CASE Expected(p) = NoTree
  <2>1. /\ pc' = [pc EXCEPT ![p] = "fetch"]
        /\ UNCHANGED <<disk, untrusted, locked, source, session, temporary, misread>>
    BY <1>1, <1>3 DEF InspectTrusted, Go, disk
  <2> QED BY <1>1, <1>3, <2>1, GoFetchStep
<1>4. CASE Expected(p) # NoTree
  <2>1. Expected(p) \in Remote /\ path \in Paths /\ path[2] = Expected(p)
    BY <1>1, <1>2, <1>4, PathParts DEF IInv, TypeOK, Digests, Expected
  <2>2. InspectExisting(p, path, "fetch")
    BY <1>2, <1>4 DEF InspectTrusted
  <2>3. CASE Good(path) /\ Materialized(p, path[2]) /\ content' = Deleted(p)
    BY <1>1, <1>2, <2>1, <2>3, MaterializedStep
  <2>4. CASE Failed(p) /\ content' = Deleted(p)
    BY <1>1, <2>4, FailedStep
  <2>5. CASE /\ \/ Stored(path) \notin {path[2], Oversized} /\ UNCHANGED misread
                \/ Stored(path) # NoTree /\ misread' = misread \cup {p}
             /\ Go(p, "fetch")
             /\ UNCHANGED <<untrusted, locked, source, session, temporary, content>>
    <3>1. /\ misread' \in {misread, misread \cup {p}}
          /\ p \notin misread' => ~Good(path)
      BY <2>5 DEF Good
    <3>2. pc' = [pc EXCEPT ![p] = "fetch"] /\ UNCHANGED disk
      BY <1>1, <2>5 DEF Go, disk
    <3> QED BY <1>1, <1>2, <2>5, <3>1, <3>2, GoFetchStep
  <2> QED BY <2>2, <2>3, <2>4, <2>5 DEF InspectExisting
<1> QED BY <1>3, <1>4

LEMMA InspectFetchedStep ==
    ASSUME IInv, NEW p \in Procs, InspectFetched(p) PROVE IInv' /\ GoodKept
<1>1. /\ pc[p] = "fetched"
      /\ UNCHANGED <<lockfile, checkout, altered, prior, backup, preserved, reader>>
  BY DEF InspectFetched
<1>2. PICK path : path = Target(p)
  OBVIOUS
<1>3. Fetched(p) \in Remote /\ path[2] = Fetched(p) /\ path = <<source[p], Fetched(p)>>
  BY <1>1, <1>2, RunHolds DEF Holding, Target
<1>4. CASE Failed(p) /\ content' = Deleted(p)
  BY <1>1, <1>4, FailedStep
<1>5. CASE Expected(p) = NoTree /\ Good(path) /\ Materialized(p, path[2])
           /\ content' = Deleted(p)
  BY <1>1, <1>3, <1>5, MaterializedStep
<1>6. CASE /\ Expected(p) \in {NoTree, Fetched(p)}
           /\ misread' \in {misread, misread \cup {p}}
           /\ p \notin misread' => Bad(path)
           /\ Go(p, "publish")
           /\ UNCHANGED <<untrusted, locked, source, session, temporary, content>>
  <2>1. pc' = [pc EXCEPT ![p] = "publish"] /\ UNCHANGED disk
    BY <1>1, <1>6 DEF Go, disk
  <2> QED BY <1>1, <1>2, <1>6, <2>1, GoPublishStep
<1>7. Expected(p) = Fetched(p) /\ p \notin misread => Bad(path)
  <2>1. Suspect(p)
    BY DEF IInv, Suspects
  <2> QED BY <1>1, <1>3, <2>1, Distinct DEF Suspect
<1>8. Stored(path) # path[2] => Bad(path)
  BY DEF Bad, Good
<1>9. InspectExisting(p, path, "publish") =>
        \/ Failed(p) /\ content' = Deleted(p)
        \/ Good(path) /\ Materialized(p, path[2]) /\ content' = Deleted(p)
        \/ /\ misread' \in {misread, misread \cup {p}}
           /\ p \notin misread' => Bad(path)
           /\ Go(p, "publish")
           /\ UNCHANGED <<untrusted, locked, source, session, temporary, content>>
  BY <1>8 DEF InspectExisting
<1>10. \/ Failed(p) /\ content' = Deleted(p)
       \/ /\ Expected(p) = Fetched(p) /\ Go(p, "publish")
          /\ UNCHANGED <<untrusted, locked, source, session, temporary, misread, content>>
       \/ Expected(p) = NoTree /\ InspectExisting(p, path, "publish")
  BY <1>2 DEF InspectFetched
<1> HIDE DEF InspectExisting, Failed, Materialized, Go, Deleted
<1> QED BY <1>4, <1>5, <1>6, <1>7, <1>9, <1>10

LEMMA LockRunStep ==
    ASSUME IInv, NEW p \in Procs, LockRun(p) PROVE IInv' /\ (GoodKept \/ TakenAside)
<1>1. CASE FetchFails(p)
  <2>1. pc[p] = "fetch" /\ temporary[p] = NoDir
    BY <1>1 DEF FetchFails, IInv, Holdings, Holds, Holding
  <2>2. content' = Deleted(p) /\ checkout' = checkout
    BY <1>1, <2>1 DEF FetchFails, Deleted, disk
  <2> QED BY <1>1, <2>1, <2>2, FailedStep DEF FetchFails
<1>2. CASE PublishFails(p)
  BY <1>2, FailedStep DEF PublishFails
<1>3. CASE PublishCheckout(p)
  BY <1>3, PublishFreeStep, PublishAsideStep
<1>4. CASE Rollback(p)
  BY <1>4, RollbackRestoresStep, RollbackPreservesStep DEF Rollback
<1>5. CASE ReadPriorLock(p) \/ (\E s \in Sources : AcquireWriterLock(p, s))
           \/ InspectTrusted(p) \/ (\E t \in Remote : Fetch(p, t)) \/ InspectFetched(p)
  BY <1>5, ReadPriorLockStep, AcquireWriterLockStep, InspectTrustedStep, FetchStep,
     InspectFetchedStep
<1>6. CASE Swap(p) \/ SwapFails(p) \/ DeleteBackup(p) \/ ValidateLock(p)
           \/ ResolutionFails(p) \/ WriteLock(p)
  BY <1>6, SwapStep, SwapFailsStep, DeleteBackupStep, ValidateLockStep, ResolutionFailsStep,
     WriteLockStep
<1> QED BY <1>1, <1>2, <1>3, <1>4, <1>5, <1>6 DEF LockRun, Advance, Fetching

-----------------------------------------------------------------------------
(* The steps of a loader.                                                   *)

\* A step that changes nothing but the loaders keeps what is said of the runs.
LEMMA RunsKept ==
    ASSUME IInv, UNCHANGED <<lockfile, disk, untrusted, altered, writers>>,
           reader' \in [Readers -> ReaderType]
    PROVE  /\ TypeOK' /\ Locks' /\ Holdings' /\ Places' /\ Suspects' /\ Trust'
           /\ TrustedDigestsKept' /\ MaterializedIsStored' /\ NothingLeftBehind'
           /\ GoodKept
<1>1. UNCHANGED <<lockfile, checkout, content, untrusted, altered, locked, pc, prior, source,
                  session, temporary, backup, preserved, misread>>
  BY DEF disk, writers
<1>2. TypeOK'
  BY <1>1 DEF IInv, TypeOK, Digests, ReaderType
<1>3. Locks' /\ Holdings' /\ Trust' /\ TrustedDigestsKept'
  BY <1>1 DEF IInv, Locks, Holdings, Holds, Trust, Trusting, TrustedDigestsKept, Target,
              Fetched, Expected
<1>4. Places'
  BY <1>1 DEF IInv, Places, OneCheckout, BackupAside, OneBackup, TemporaryAside, Fresh, Unused
<1>5. Suspects' /\ MaterializedIsStored'
  BY <1>1 DEF IInv, Suspects, Suspect, MaterializedIsStored, Bad, Good, Stored, Expected,
              Target, Fetched
<1>6. NothingLeftBehind'
  BY <1>1 DEF IInv, NothingLeftBehind, Running
<1>7. GoodKept
  BY <1>1, Distinct, PathParts DEF GoodKept, Good, Stored
<1> QED BY <1>2, <1>3, <1>4, <1>5, <1>6, <1>7

\* A loader changes nothing but what it has read.
LEMMA LoaderKeeps ==
    ASSUME IInv, NEW r \in Readers,
           UNCHANGED <<lockfile, disk, untrusted, altered, writers>>,
           reader' \in [Readers -> ReaderType],
           \A q \in Readers \ {r} : reader'[q] = reader[q],
           Sound(r)',
           reader'[r].at = "accepted" =>
               /\ reader'[r].captured = reader'[r].path[2]
               /\ reader'[r].manifest = reader'[r].path[2].manifest,
           reader'[r].at = "rejected" => ~reader'[r].sound
    PROVE  IInv' /\ GoodKept
<1>1. ASSUME NEW q \in Readers, q # r PROVE Sound(q)'
  <2>1. Sound(q) /\ reader'[q] = reader[q]
    BY <1>1 DEF IInv, LoadersSound, SoundReaders
  <2> QED BY <2>1 DEF Sound, disk
<1>2. SoundReaders'
  BY <1>1 DEF SoundReaders
<1>3. LoaderUsesLockedTree' /\ SoundReadsSucceed'
  BY DEF IInv, LoadersSound, LoaderUsesLockedTree, SoundReadsSucceed
<1> QED BY <1>2, <1>3, RunsKept DEF IInv, LoadersSound

\* A loader gives up only when its directory is not sound.
LEMMA RejectStep ==
    ASSUME IInv, NEW r \in Readers, Reject(r), ~reader[r].sound,
           UNCHANGED <<lockfile, disk, untrusted, altered, writers>>
    PROVE  IInv' /\ GoodKept
<1>1. reader \in [Readers -> ReaderType] /\ reader[r] \in ReaderType
  BY ReaderIs
<1>2. [Idle EXCEPT !.at = "rejected", !.sound = reader[r].sound] \in ReaderType
  BY <1>1 DEF ReaderType, Idle
<1>3. /\ reader' \in [Readers -> ReaderType]
      /\ \A q \in Readers \ {r} : reader'[q] = reader[q]
      /\ reader'[r] = [Idle EXCEPT !.at = "rejected", !.sound = reader[r].sound]
  BY <1>1, <1>2 DEF Reject
<1>4. reader'[r].at = "rejected" /\ reader'[r].sound = reader[r].sound
  BY <1>3 DEF Idle
<1>5. Sound(r)'
  BY <1>4 DEF Sound
<1> QED BY <1>3, <1>4, <1>5, LoaderKeeps

LEMMA ReadLockStep ==
    ASSUME IInv, NEW r \in Readers, NEW s \in Sources, ReadLock(r, s)
    PROVE  IInv' /\ GoodKept
<1>1. reader \in [Readers -> ReaderType] /\ reader[r] \in ReaderType /\ Sound(r)
  BY ReaderIs
<1>2. <<s, lockfile[s]>> \in Paths
  BY PathParts DEF ReadLock, IInv, TypeOK, Digests
<1>3. /\ reader' \in [Readers -> ReaderType]
      /\ \A q \in Readers \ {r} : reader'[q] = reader[q]
      /\ reader'[r].at = "open" /\ reader'[r].path \in Paths
      /\ reader'[r].sound = reader[r].sound
  BY <1>1, <1>2 DEF ReadLock, ReaderType
<1>4. ~reader[r].sound
  BY <1>1 DEF Sound, ReadLock
<1>5. Sound(r)'
  BY <1>3, <1>4 DEF Sound
<1> QED BY <1>3, <1>5, LoaderKeeps DEF ReadLock

LEMMA OpenCheckoutStep ==
    ASSUME IInv, NEW r \in Readers, OpenCheckout(r) PROVE IInv' /\ GoodKept
<1>1. /\ reader \in [Readers -> ReaderType] /\ reader[r] \in ReaderType /\ Sound(r)
      /\ reader[r].at = "open" /\ reader[r].path \in Paths /\ ~reader[r].sound
  BY ReaderIs DEF OpenCheckout, Sound
<1>2. CASE checkout[reader[r].path] = NoDir
  BY <1>1, <1>2, RejectStep DEF OpenCheckout
<1>3. CASE checkout[reader[r].path] # NoDir
  <2> DEFINE path == reader[r].path
             ok == Good(path) /\ path \notin untrusted
  <2>1. checkout[path] \in Dirs
    BY <1>1, <1>3 DEF IInv, TypeOK
  <2>2. reader' = [reader EXCEPT ![r].at = "manifest", ![r].dir = checkout[path], ![r].sound = ok]
    BY <1>3 DEF OpenCheckout
  <2>3. ok \in BOOLEAN
    BY DEF Good
  <2>4. ok => content[checkout[path]] = path[2] /\ path \notin untrusted
    BY <1>3 DEF Good, Stored
  <2> HIDE DEF ok
  <2>5. /\ reader' \in [Readers -> ReaderType]
        /\ \A q \in Readers \ {r} : reader'[q] = reader[q]
        /\ reader'[r].at = "manifest" /\ reader'[r].path = path
        /\ reader'[r].dir = checkout[path] /\ reader'[r].sound = ok
    BY <1>1, <2>1, <2>2, <2>3 DEF ReaderType
  <2>6. UNCHANGED <<lockfile, disk, untrusted, altered, writers>>
    BY DEF OpenCheckout
  <2>7. Sound(r)'
    BY <1>1, <2>1, <2>4, <2>5, <2>6 DEF Sound, disk
  <2> QED BY <2>5, <2>6, <2>7, LoaderKeeps
<1> QED BY <1>2, <1>3

\* What a loader whose directory is sound finds in it.
LEMMA SoundHeld ==
    ASSUME IInv, NEW r \in Readers, reader[r].at \in Reading, reader[r].sound
    PROVE  Held(r) = reader[r].path[2] /\ Held(r) \in Tree
BY ReaderIs, PathParts, Distinct DEF Sound, Reading, Held

LEMMA TreeParts ==
    ASSUME NEW t \in Tree, NEW u \in Tree
    PROVE  /\ t.manifest \in Manifests /\ t.body \in Bodies
           /\ [t EXCEPT !.body = u.body] \in Tree
           /\ [t EXCEPT !.body = t.body] = t
BY DEF Tree

LEMMA ReadManifestStep ==
    ASSUME IInv, NEW r \in Readers, ReadManifest(r) PROVE IInv' /\ GoodKept
<1>1. /\ reader \in [Readers -> ReaderType] /\ reader[r] \in ReaderType /\ Sound(r)
      /\ reader[r].at = "manifest"
      /\ UNCHANGED <<lockfile, disk, untrusted, altered, writers>>
  BY ReaderIs DEF ReadManifest
<1>2. reader[r].sound => Held(r) = reader[r].path[2] /\ Held(r) \in Tree
  BY <1>1, SoundHeld DEF Reading
<1>3. CASE Held(r) \notin Tree
  BY <1>1, <1>2, <1>3, RejectStep DEF ReadManifest
<1>4. CASE Held(r) \in Tree
  <2> DEFINE h == Held(r)
  <2>1. reader' = [reader EXCEPT ![r].at = "captureManifest", ![r].manifest = h.manifest]
    BY <1>4 DEF ReadManifest
  <2>2. h.manifest \in Manifests
    BY <1>4, TreeParts
  <2> HIDE DEF h
  <2>3. /\ reader' \in [Readers -> ReaderType]
        /\ \A q \in Readers \ {r} : reader'[q] = reader[q]
        /\ reader'[r].at = "captureManifest" /\ reader'[r].manifest = h.manifest
        /\ reader'[r].path = reader[r].path /\ reader'[r].dir = reader[r].dir
        /\ reader'[r].sound = reader[r].sound
    BY <1>1, <2>1, <2>2 DEF ReaderType
  <2>4. Sound(r)'
    BY <1>1, <1>2, <2>3 DEF Sound, disk, h
  <2> QED BY <1>1, <2>3, <2>4, LoaderKeeps
<1> QED BY <1>3, <1>4

LEMMA CaptureManifestStep ==
    ASSUME IInv, NEW r \in Readers, CaptureManifest(r) PROVE IInv' /\ GoodKept
<1>1. /\ reader \in [Readers -> ReaderType] /\ reader[r] \in ReaderType /\ Sound(r)
      /\ reader[r].at = "captureManifest"
      /\ UNCHANGED <<lockfile, disk, untrusted, altered, writers>>
  BY ReaderIs DEF CaptureManifest
<1>2. reader[r].sound => Held(r) = reader[r].path[2] /\ Held(r) \in Tree
  BY <1>1, SoundHeld DEF Reading
<1>3. CASE Held(r) \notin Tree
  BY <1>1, <1>2, <1>3, RejectStep DEF CaptureManifest
<1>4. CASE Held(r) \in Tree
  <2> DEFINE h == Held(r)
  <2>1. reader' = [reader EXCEPT ![r].at = "captureBody", ![r].captured = h] /\ h \in Tree
    BY <1>4 DEF CaptureManifest
  <2> HIDE DEF h
  <2>2. /\ reader' \in [Readers -> ReaderType]
        /\ \A q \in Readers \ {r} : reader'[q] = reader[q]
        /\ reader'[r].at = "captureBody" /\ reader'[r].captured = h
        /\ reader'[r].manifest = reader[r].manifest
        /\ reader'[r].path = reader[r].path /\ reader'[r].dir = reader[r].dir
        /\ reader'[r].sound = reader[r].sound
    BY <1>1, <2>1 DEF ReaderType
  <2>3. Sound(r)'
    BY <1>1, <1>2, <2>1, <2>2 DEF Sound, disk, h
  <2> QED BY <1>1, <2>2, <2>3, LoaderKeeps
<1> QED BY <1>3, <1>4

LEMMA CaptureBodyStep ==
    ASSUME IInv, NEW r \in Readers, CaptureBody(r) PROVE IInv' /\ GoodKept
<1>1. /\ reader \in [Readers -> ReaderType] /\ reader[r] \in ReaderType /\ Sound(r)
      /\ reader[r].at = "captureBody"
      /\ UNCHANGED <<lockfile, disk, untrusted, altered, writers>>
  BY ReaderIs DEF CaptureBody
<1>2. reader[r].sound => Held(r) = reader[r].path[2] /\ Held(r) \in Tree
  BY <1>1, SoundHeld DEF Reading
<1>3. CASE Held(r) \notin Tree
  BY <1>1, <1>2, <1>3, RejectStep DEF CaptureBody
<1>4. CASE Held(r) \in Tree
  <2> DEFINE c == [reader[r].captured EXCEPT !.body = Held(r).body]
  <2>1. reader[r].captured \in Tree
    BY <1>1 DEF Sound
  <2>2. c \in Tree
    BY <1>4, <2>1, TreeParts
  <2>3. reader[r].sound => c = reader[r].path[2]
    <3>1. reader[r].sound => reader[r].captured = Held(r)
      BY <1>1, <1>2 DEF Sound
    <3> QED BY <1>2, <1>4, <3>1, TreeParts
  <2>4. reader' = [reader EXCEPT ![r].at = "verify", ![r].captured = c]
    BY <1>1, <1>4 DEF CaptureBody
  <2> HIDE DEF c
  <2>5. /\ reader' \in [Readers -> ReaderType]
        /\ \A q \in Readers \ {r} : reader'[q] = reader[q]
        /\ reader'[r].at = "verify" /\ reader'[r].captured = c
        /\ reader'[r].manifest = reader[r].manifest
        /\ reader'[r].path = reader[r].path /\ reader'[r].dir = reader[r].dir
        /\ reader'[r].sound = reader[r].sound
    BY <1>1, <2>2, <2>4 DEF ReaderType
  <2>6. Sound(r)'
    BY <1>1, <2>2, <2>3, <2>5 DEF Sound, disk
  <2> QED BY <1>1, <2>5, <2>6, LoaderKeeps
<1> QED BY <1>3, <1>4

\* A sound loader's capture is the locked tree: the digest and the manifest match.
LEMMA VerifyStep ==
    ASSUME IInv, NEW r \in Readers, Verify(r) PROVE IInv' /\ GoodKept
<1>1. /\ reader \in [Readers -> ReaderType] /\ reader[r] \in ReaderType /\ Sound(r)
      /\ reader[r].at = "verify"
      /\ UNCHANGED <<lockfile, disk, untrusted, altered, writers>>
  BY ReaderIs DEF Verify
<1>2. CASE /\ reader[r].captured = reader[r].path[2]
           /\ reader[r].captured.manifest = reader[r].manifest
  <2>1. reader' = [reader EXCEPT ![r].at = "accepted", ![r].dir = NoDir]
    BY <1>2 DEF Verify
  <2>2. /\ reader' \in [Readers -> ReaderType]
        /\ \A q \in Readers \ {r} : reader'[q] = reader[q]
        /\ reader'[r].at = "accepted" /\ reader'[r].captured = reader[r].captured
        /\ reader'[r].manifest = reader[r].manifest /\ reader'[r].path = reader[r].path
    BY <1>1, <2>1 DEF ReaderType
  <2>3. Sound(r)'
    BY <1>1, <2>2 DEF Sound
  <2> QED BY <1>1, <1>2, <2>2, <2>3, LoaderKeeps
<1>3. CASE ~(/\ reader[r].captured = reader[r].path[2]
             /\ reader[r].captured.manifest = reader[r].manifest)
  <2>1. ~reader[r].sound
    BY <1>1, <1>3 DEF Sound
  <2> QED BY <1>1, <1>3, <2>1, RejectStep DEF Verify
<1> QED BY <1>2, <1>3

\* A read of the loader's own that fails says nothing of the directory.
LEMMA ReadFailsStep ==
    ASSUME IInv, NEW r \in Readers, ReadFails(r) PROVE IInv' /\ GoodKept
<1>1. /\ reader \in [Readers -> ReaderType] /\ reader[r] \in ReaderType
      /\ UNCHANGED <<lockfile, disk, untrusted, altered, writers>>
      /\ reader' = [reader EXCEPT ![r] = [Idle EXCEPT !.at = "rejected"]]
  BY ReaderIs DEF ReadFails
<1>2. /\ reader' \in [Readers -> ReaderType]
      /\ \A q \in Readers \ {r} : reader'[q] = reader[q]
      /\ reader'[r].at = "rejected" /\ ~reader'[r].sound
  BY <1>1 DEF Idle, ReaderType
<1>3. Sound(r)'
  BY <1>2 DEF Sound
<1> QED BY <1>1, <1>2, <1>3, LoaderKeeps

LEMMA LoaderStep ==
    ASSUME IInv, NEW r \in Readers, Loader(r) PROVE IInv' /\ GoodKept
BY ReadLockStep, OpenCheckoutStep, ReadManifestStep, CaptureManifestStep, CaptureBodyStep,
   VerifyStep, ReadFailsStep DEF Loader

-----------------------------------------------------------------------------
(* The steps of other programs.                                             *)

\* What they touch is untrusted from then on, and no temporary directory or backup.
LEMMA TouchedStep ==
    ASSUME IInv, NEW path \in Paths, NEW c \in Tree \cup {Broken, Oversized, Gone},
           altered < MaxAlter, altered' = altered + 1, checkout[path] # NoDir,
           content' = [content EXCEPT ![checkout[path]] = c],
           \/ checkout' = checkout
           \/ c = Gone /\ checkout' = [checkout EXCEPT ![path] = NoDir],
           Touched(path), UNCHANGED <<lockfile, writers>>
    PROVE  IInv'
<1>1. /\ UNCHANGED <<lockfile, locked, pc, prior, source, session, temporary, backup,
                     preserved, misread>>
      /\ untrusted' = untrusted \cup {path}
  BY DEF writers, Touched
<1>2. checkout[path] \in Dirs /\ TypeOK
  BY DEF IInv, TypeOK
<1>3. /\ \A a \in Paths : a # path => checkout'[a] = checkout[a]
      /\ checkout'[path] \in {checkout[path], NoDir}
      /\ checkout' \in [Paths -> Dirs \cup {NoDir}]
  BY <1>2 DEF TypeOK
<1>4. /\ content' \in [Dirs -> Tree \cup {Broken, Oversized, Gone}]
      /\ \A d \in Dirs : d # checkout[path] => content'[d] = content[d]
      /\ content'[checkout[path]] = c
  BY <1>2 DEF TypeOK
<1>5. \A p \in Procs : temporary[p] # checkout[path] /\ backup[p] # checkout[path]
  BY <1>2 DEF IInv, Places, TemporaryAside, BackupAside, Unused
<1>6. \A a \in Paths : a # path => checkout[a] # checkout[path]
  BY DEF IInv, Places, OneCheckout
<1>7. \A a \in Paths : a = path \/ (/\ checkout'[a] = checkout[a]
                                    /\ a \in untrusted' <=> a \in untrusted
                                    /\ checkout[a] # NoDir =>
                                         content'[checkout[a]] = content[checkout[a]])
  BY <1>1, <1>2, <1>3, <1>4, <1>6 DEF TypeOK
<1>8. \A p \in Procs : temporary[p] # NoDir => Fetched(p)' = Fetched(p) /\ Target(p)' = Target(p)
  BY <1>1, <1>2, <1>4, <1>5 DEF TypeOK, Fetched, Target
<1>9. \A p \in Procs : pc[p] \in Holding => temporary[p] # NoDir /\ source[p] \in Sources
  BY RunHolds
<1>17. reader' \in [Readers -> ReaderType] /\ LoadersSound'
  <2>1. KeptBut(path)
    BY <1>1, <1>7, Distinct, PathParts DEF KeptBut, Good, Stored
  <2> QED BY <2>1, LoadersTouched
<1>10. TypeOK'
  <2>2. altered' \in 0 .. MaxAlter
    BY <1>2, CacheAssumption DEF TypeOK
  <2> QED BY <1>1, <1>2, <1>3, <1>4, <1>17, <2>2 DEF TypeOK, ReaderType
<1>11. Locks' /\ TrustedDigestsKept'
  BY <1>1 DEF IInv, Locks, TrustedDigestsKept
<1>12. Holdings'
  <2> SUFFICES ASSUME NEW p \in Procs PROVE Holds(p)'
    BY DEF Holdings
  <2>1. Holds(p)
    BY DEF IInv, Holdings
  <2>2. pc[p] \in {"swap", "rollback"} => checkout'[Target(p)] = NoDir
    <3>1. ASSUME pc[p] \in {"swap", "rollback"} PROVE Target(p) \in Paths /\ checkout[Target(p)] = NoDir
      BY <3>1, RunHolds, RunSwaps DEF Holding
    <3> QED BY <1>3, <3>1
  <2>3. pc[p] \in Holding => Fetched(p)' = Fetched(p) /\ Target(p)' = Target(p)
    BY <1>8, <1>9
  <2> QED BY <1>1, <2>1, <2>2, <2>3 DEF Holds, Holding
<1>13. Places'
  <2>1. OneCheckout' /\ BackupAside' /\ OneBackup'
    BY <1>1, <1>2, <1>3, <1>5 DEF IInv, Places, OneCheckout, BackupAside, OneBackup
  <2>2. \A d \in Dirs : Unused(d) => Unused(d)'
    BY <1>1, <1>3, Distinct DEF Unused
  <2>3. TemporaryAside'
    BY <1>1, <1>2, <2>2 DEF IInv, Places, TemporaryAside, TypeOK
  <2>4. Fresh'
    BY <1>1, <2>2, RunDirs DEF IInv, Places, Fresh
  <2> QED BY <2>1, <2>3, <2>4 DEF Places
<1>14. \A a \in Paths : Bad(a) => BadAfter(a)
  BY <1>1, <1>7, Distinct, PathParts DEF Bad, Good, Stored, BadAfter, GoodAfter
<1>15. Suspects'
  <2> SUFFICES ASSUME NEW q \in Procs PROVE Suspect(q)'
    BY DEF Suspects
  <2>1. Suspect(q)
    BY DEF IInv, Suspects
  <2>2. ASSUME q \notin misread, pc[q] \in {"fetch", "fetched"}, Expected(q) # NoTree
        PROVE  BadAfter(<<source[q], Expected(q)>>)
    <3>1. <<source[q], Expected(q)>> \in Paths /\ Bad(<<source[q], Expected(q)>>)
      BY <1>2, <2>1, <2>2, PathParts DEF IInv, Locks, Materializing, TypeOK, Digests, Suspect,
         Expected
    <3> QED BY <1>14, <3>1
  <2>3. ASSUME q \notin misread, pc[q] = "publish"
        PROVE  /\ BadAfter(<<source[q], content'[temporary'[q]]>>)
               /\ content'[temporary'[q]] # NoTree
    <3>1. /\ Target(q) \in Paths /\ Bad(Target(q)) /\ Fetched(q) \in Remote
          /\ content'[temporary'[q]] = Fetched(q)
      BY <1>8, <1>9, <2>1, <2>3, RunHolds DEF Suspect, Holding, Fetched
    <3> QED BY <1>14, <3>1, Distinct DEF Target
  <2> QED BY <1>1, <2>2, <2>3, SuspectAfter DEF Expected
<1>16. Trust'
  <2> SUFFICES ASSUME NEW p \in Procs PROVE Trusting(p)'
    BY DEF Trust
  <2>1. Trusting(p)
    BY DEF IInv, Trust
  <2>2. pc[p] \in {"publish", "swap", "rollback"} => Fetched(p)' = Fetched(p)
    BY <1>8, <1>9 DEF Holding
  <2> QED BY <1>1, <2>1, <2>2 DEF Trusting, Expected, Nothing
<1>18. MaterializedIsStored'
  <2> SUFFICES ASSUME NEW q \in Procs, NEW s \in Sources, session[q][s] # NoTree
               PROVE  Good(<<s, session[q][s]>>)' \/ <<s, session[q][s]>> \in untrusted'
    BY <1>1 DEF MaterializedIsStored
  <2>1. /\ <<s, session[q][s]>> \in Paths
        /\ Good(<<s, session[q][s]>>) \/ <<s, session[q][s]>> \in untrusted
    BY PathParts DEF IInv, TypeOK, Digests, MaterializedIsStored
  <2> QED BY <1>1, <1>7, <2>1, Distinct, PathParts DEF Good, Stored
<1>19. NothingLeftBehind'
  <2> SUFFICES ASSUME NEW d \in Dirs, content'[d] # Gone
               PROVE  \/ \E a \in Paths : checkout'[a] = d
                      \/ \E p \in Procs : /\ d \in {temporary[p], backup[p]}
                                          /\ Running(p) \/ pc[p] = "crashed"
                      \/ d \in preserved
    BY <1>1 DEF NothingLeftBehind, Running
  <2>1. CASE d = checkout[path]
    <3>1. checkout' = checkout
      BY <1>4, <2>1
    <3> QED BY <2>1, <3>1
  <2>2. CASE d # checkout[path]
    <3>1. content[d] # Gone
      BY <1>4, <2>2
    <3> QED BY <1>3, <2>2, <3>1 DEF IInv, NothingLeftBehind
  <2> QED BY <2>1, <2>2
<1> QED
  BY <1>10, <1>11, <1>12, <1>13, <1>15, <1>16, <1>17, <1>18, <1>19 DEF IInv

LEMMA OthersStep ==
    ASSUME IInv, Others PROVE IInv' /\ altered' # altered
<1>1. altered' # altered
  BY DEF Others, Alter, Remove, IInv, TypeOK
<1>2. ASSUME NEW path \in Paths, NEW c \in Tree \cup {Broken, Oversized}, Alter(path, c)
      PROVE  IInv'
  BY <1>2, TouchedStep DEF Alter
<1>3. ASSUME NEW path \in Paths, Remove(path) PROVE IInv'
  BY <1>3, TouchedStep DEF Remove
<1> QED BY <1>1, <1>2, <1>3 DEF Others

-----------------------------------------------------------------------------
(* The invariant and the theorems of the package cache.                     *)

LEMMA InitIInv == Init => IInv
<1> SUFFICES ASSUME Init PROVE IInv
  OBVIOUS
<1>1. TypeOK
  <2>1. reader \in [Readers -> ReaderType]
    BY DEF Init, Idle, ReaderType
  <2>2. content \in [Dirs -> Tree \cup {Broken, Oversized, Gone}]
    BY Distinct DEF Init
  <2>3. 0 \in 0 .. MaxAlter
    BY CacheAssumption
  <2> QED BY <2>1, <2>2, <2>3 DEF Init, TypeOK, ReaderType, Digests, Nothing
<1>2. Locks /\ Holdings /\ Trust /\ TrustedDigestsKept
  BY Distinct DEF Init, Locks, Materializing, Holdings, Holds, Holding, Trust, Trusting,
     TrustedDigestsKept, Nothing
<1>3. Places
  <2>1. OneCheckout
    BY PathParts DEF Init, OneCheckout
  <2>2. BackupAside /\ OneBackup /\ TemporaryAside
    BY DEF Init, BackupAside, OneBackup, TemporaryAside
  <2>3. Fresh
    <3> SUFFICES ASSUME NEW p \in Procs, NEW s \in Sources PROVE Unused(<<p, s>>)
      BY DEF Fresh
    <3>1. \A path \in Paths : checkout[path] # <<p, s>>
      <4>1. \A path \in Paths : checkout[path] \in {NoDir, <<"earlier", path[1], path[2]>>}
        BY DEF Init
      <4> QED BY <4>1, RunDirs, EarlierDirs
    <3>2. \A q \in Procs : backup[q] # <<p, s>>
      BY RunDirs DEF Init
    <3> QED BY <3>1, <3>2 DEF Unused
  <2> QED BY <2>1, <2>2, <2>3 DEF Places
<1>4. Suspects /\ MaterializedIsStored
  BY DEF Init, Suspects, Suspect, MaterializedIsStored, Nothing
<1>5. LoadersSound
  BY DEF Init, LoadersSound, SoundReaders, Sound, LoaderUsesLockedTree, SoundReadsSucceed, Idle
<1>6. NothingLeftBehind
  BY DEF Init, NothingLeftBehind
<1> QED BY <1>1, <1>2, <1>3, <1>4, <1>5, <1>6 DEF IInv

LEMMA NextIInv ==
    IInv /\ [Next]_vars => IInv' /\ (GoodKept \/ TakenAside \/ altered' # altered)
<1> SUFFICES ASSUME IInv, [Next]_vars
             PROVE  IInv' /\ (GoodKept \/ TakenAside \/ altered' # altered)
  OBVIOUS
<1>1. CASE UNCHANGED vars
  <2>1. reader' \in [Readers -> ReaderType]
    BY <1>1 DEF vars, IInv, TypeOK, ReaderType
  <2>2. UNCHANGED <<lockfile, disk, untrusted, altered, writers>> /\ reader' = reader
    BY <1>1 DEF vars
  <2> QED BY <2>1, <2>2, RunsKept, LoadersUndisturbed DEF IInv
<1>2. CASE Next
  BY <1>2, LockRunStep, CrashStep, LoaderStep, OthersStep DEF Next
<1> QED BY <1>1, <1>2

LEMMA Invariance == Spec => []IInv
BY InitIInv, NextIInv, PTL DEF Spec

\* Every variable has its type whatever the runs, the loaders and other programs do.
THEOREM TypeCorrect == Spec => []TypeOK
<1>1. IInv => TypeOK
  BY DEF IInv
<1> QED BY <1>1, Invariance, PTL

\* What a run of deps lock materialized stays in the cache, whatever other runs do,
\* except under one whose inspection could not read it.
THEOREM MaterializedIsStoredTheorem == Spec => []MaterializedIsStored
<1>1. IInv => MaterializedIsStored
  BY DEF IInv
<1> QED BY <1>1, Invariance, PTL

\* A lockfile that a run wrote names trees that are in the cache, but for those that
\* others touched and those a run could not read and moved aside.
THEOREM LockfileIsMaterializedTheorem == Spec => []LockfileIsMaterialized
<1>1. IInv => LockfileIsMaterialized
  BY DEF IInv, LockfileIsMaterialized, MaterializedIsStored, Trust, Trusting
<1> QED BY <1>1, Invariance, PTL

\* materialize_with never takes another tree than the trusted digest names.
THEOREM TrustedDigestsKeptTheorem == Spec => []TrustedDigestsKept
<1>1. IInv => TrustedDigestsKept
  BY DEF IInv
<1> QED BY <1>1, Invariance, PTL

\* verify_locked_source and the comparison of manifests accept the locked tree only.
THEOREM LoaderUsesLockedTreeTheorem == Spec => []LoaderUsesLockedTree
<1>1. IInv => LoaderUsesLockedTree
  BY DEF IInv, LoadersSound
<1> QED BY <1>1, Invariance, PTL

\* A loader that opened a good checkout is not disturbed by the runs that publish, but
\* for one whose own inspection could not read that checkout.
THEOREM SoundReadsSucceedTheorem == Spec => []SoundReadsSucceed
<1>1. IInv => SoundReadsSucceed
  BY DEF IInv, LoadersSound
<1> QED BY <1>1, Invariance, PTL

\* The guards of a run that ends delete its directories, or it reports them.
THEOREM NothingLeftBehindTheorem == Spec => []NothingLeftBehind
<1>1. IInv => NothingLeftBehind
  BY DEF IInv
<1> QED BY <1>1, Invariance, PTL

\* publish_checkout moves a good checkout aside only for a run whose inspection could
\* not read it.
THEOREM GoodCheckoutsKeptTheorem == Spec => GoodCheckoutsKept
<1>1. IInv /\ [Next]_vars =>
        [\A path \in Paths \ untrusted :
            Good(path) => \/ Good(path)' \/ altered' # altered
                          \/ \E p \in misread : pc[p] = "publish" /\ Target(p) = path]_vars
  <2> SUFFICES ASSUME IInv, [Next]_vars, NEW path \in Paths \ untrusted, Good(path)
               PROVE  \/ Good(path)' \/ altered' # altered
                      \/ \E p \in misread : pc[p] = "publish" /\ Target(p) = path
    OBVIOUS
  <2>1. ASSUME /\ checkout'[path] = checkout[path]
               /\ content'[checkout[path]] = path[2]
        PROVE  Good(path)'
    <3>1. checkout[path] # NoDir
      BY Distinct, PathParts DEF Good, Stored
    <3> QED BY <2>1, <3>1 DEF Good, Stored
  <2>2. CASE GoodKept
    BY <2>1, <2>2 DEF GoodKept
  <2>3. CASE TakenAside
    <3>1. PICK p \in misread : pc[p] = "publish" /\ KeptBut(Target(p))
      BY <2>3 DEF TakenAside
    <3>2. CASE Target(p) # path
      BY <2>1, <3>1, <3>2 DEF KeptBut
    <3> QED BY <3>1, <3>2
  <2> QED BY <2>2, <2>3, NextIInv
<1> QED BY <1>1, Invariance, PTL DEF Spec, GoodCheckoutsKept

\* What a step of a run does to the directories.
LEMMA RunContent ==
    ASSUME IInv, NEW q \in Procs, LockRun(q)
    PROVE  \/ content' = content
           \/ content' = Deleted(q)
           \/ \E t \in Remote : content' = [content EXCEPT ![<<q, source[q]>>] = t]
           \/ DeleteBackup(q)
BY DEF LockRun, Advance, Fetching, ReadPriorLock, AcquireWriterLock, InspectTrusted,
   InspectExisting, Fetch, FetchFails, InspectFetched, PublishCheckout, PublishFails, Swap,
   SwapFails, Rollback, ValidateLock, ResolutionFails, WriteLock, disk

\* publish_checkout's guard deletes the backup only after the second rename.
THEOREM BackupOutlivesSwapTheorem == Spec => BackupOutlivesSwap
<1>1. ASSUME IInv, [Next]_vars, NEW p \in Procs, backup[p] # NoDir,
             content[backup[p]] # Gone, content'[backup[p]] = Gone
      PROVE  LET path == <<source[p], session[p][source[p]]>> IN
             session[p][source[p]] # NoTree /\ (Good(path) \/ path \in untrusted)
  <2>1. backup[p] \in Dirs /\ content \in [Dirs -> Tree \cup {Broken, Oversized, Gone}]
    BY <1>1 DEF IInv, TypeOK
  <2>2. \A q \in Procs : temporary[q] # backup[p]
    BY <1>1 DEF IInv, Places, TemporaryAside, Unused
  <2>3. CASE Others
    <3>1. PICK path \in Paths, c \in Tree \cup {Broken, Oversized, Gone} :
            content' = [content EXCEPT ![checkout[path]] = c]
      BY <2>3 DEF Others, Alter, Remove
    <3>2. checkout[path] # backup[p]
      BY <1>1 DEF IInv, Places, BackupAside
    <3> QED BY <1>1, <2>1, <3>1, <3>2
  <2>4. CASE content' = content
    BY <1>1, <2>4
  <2>5. ASSUME NEW q \in Procs, LockRun(q), ~DeleteBackup(q) PROVE FALSE
    <3>1. CASE content' = Deleted(q)
      BY <1>1, <2>1, <2>2, <3>1 DEF Deleted
    <3>2. CASE \E t \in Remote : content' = [content EXCEPT ![<<q, source[q]>>] = t]
      BY <1>1, <2>1, <3>2, Distinct
    <3> QED BY <1>1, <2>4, <2>5, <3>1, <3>2, RunContent
  <2>6. ASSUME NEW q \in Procs, q # p, DeleteBackup(q) PROVE FALSE
    <3>1. backup[q] # backup[p] /\ content' = [content EXCEPT ![backup[q]] = Gone]
      BY <1>1, <2>6, RunSwaps DEF DeleteBackup
    <3> QED BY <1>1, <2>1, <3>1
  <2>7. CASE DeleteBackup(p)
    <3>1. source[p] \in Sources /\ session[p][source[p]] # NoTree
      BY <1>1, <2>7 DEF DeleteBackup, IInv, Locks, Materializing
    <3> QED BY <1>1, <3>1 DEF IInv, MaterializedIsStored
  <2>8. ASSUME NEW q \in Procs, Crash(q) PROVE content' = content
    BY <2>8 DEF Crash, disk
  <2>9. ASSUME NEW r \in Readers, Loader(r) PROVE content' = content
    BY <2>9 DEF Loader, ReadLock, OpenCheckout, ReadManifest, CaptureManifest, CaptureBody,
       Verify, ReadFails, disk
  <2>10. UNCHANGED vars => content' = content
    BY DEF vars, disk
  <2> QED BY <1>1, <2>3, <2>4, <2>5, <2>6, <2>7, <2>8, <2>9, <2>10 DEF Next
<1>2. IInv /\ [Next]_vars =>
        [\A p \in Procs :
            backup[p] # NoDir /\ content[backup[p]] # Gone /\ content'[backup[p]] = Gone
            => LET path == <<source[p], session[p][source[p]]>> IN
               session[p][source[p]] # NoTree /\ (Good(path) \/ path \in untrusted)]_vars
  BY <1>1
<1> QED BY <1>2, Invariance, PTL DEF Spec, BackupOutlivesSwap

-----------------------------------------------------------------------------
(* The replacement of a file.                                               *)

\* Control points before the rename.
Unrenamed == {"start", "read", "create", "written", "validated", "synced"}

\* Nobody sees a temporary file before its rename.
TemporaryPrivate ==
    \A w \in Writers : phase[w] \in Unrenamed => entry # w /\ diskEntry # w

\* A temporary file that was written is complete in the cache ...
TemporaryWritten ==
    \A w \in Writers : phase[w] \in {"written", "validated", "synced"} => data[w] # Partial

\* ... and on disk once it is synchronized.
TemporarySynced ==
    \A w \in Writers : phase[w] = "synced" => diskData[w] # Partial

\* What either view of the directory names is complete in both views.
Complete ==
    \A f \in Files : entry = f \/ diskEntry = f => data[f] # Partial /\ diskData[f] # Partial

\* A reported success is in the directory on disk.
Durable == \A w \in Writers : phase[w] = "ok" /\ entry = w => diskEntry = w

\* The last validation still holds, or somebody wrote since.
Validated == \A w \in Committed : AsExpected(w) \/ w \in raced

\* The inductive invariant of the writers and the disk.
ReplaceIInv ==
    /\ ReplaceTypeOK
    /\ TemporaryPrivate
    /\ TemporaryWritten
    /\ TemporarySynced
    /\ Complete
    /\ Durable
    /\ Validated

\* A directory without writers at work satisfies the invariant.
LEMMA ReplaceInitIInv == ReplaceInit => ReplaceIInv
<1> SUFFICES ASSUME ReplaceInit PROVE ReplaceIInv
  OBVIOUS
<1> USE DistinctAssumption DEF ReplaceInit, Files
<1>1. ReplaceTypeOK
  BY DEF ReplaceTypeOK
<1>2. TemporaryPrivate
  BY DEF TemporaryPrivate
<1>3. TemporaryWritten /\ TemporarySynced /\ Durable /\ Validated
  BY DEF TemporaryWritten, TemporarySynced, Durable, Validated, Committed
<1>4. Complete
  BY DEF Complete
<1> QED
  BY <1>1, <1>2, <1>3, <1>4 DEF ReplaceIInv

\* Reading, validating and failing change no file and keep the invariant.
LEMMA WriterKeeps ==
  ASSUME ReplaceIInv, NEW w \in Writers,
         \/ ReadSource(w) \/ FirstValidation(w) \/ SecondValidation(w)
         \/ Fail(w) \/ FailSync(w)
  PROVE  ReplaceIInv'
<1> USE DistinctAssumption
    DEF ReplaceIInv, ReplaceTypeOK, TemporaryPrivate, TemporaryWritten, TemporarySynced, Complete, Durable,
        Validated, Committed, AsExpected, Contents, Files, Unrenamed, Reach, onDisk
<1>1. CASE ReadSource(w)
  BY <1>1 DEF ReadSource
<1>2. CASE FirstValidation(w)
  BY <1>2 DEF FirstValidation
<1>3. CASE SecondValidation(w)
  BY <1>3 DEF SecondValidation
<1>4. CASE Fail(w)
  BY <1>4 DEF Fail
<1>5. CASE FailSync(w)
  BY <1>5 DEF FailSync
<1> QED
  BY <1>1, <1>2, <1>3, <1>4, <1>5

\* Writing, synchronizing and renaming keep the invariant.
LEMMA WriterWrites ==
  ASSUME ReplaceIInv, NEW w \in Writers,
         WriteTemporary(w) \/ SyncTemporary(w) \/ Persist(w) \/ SyncDirectory(w)
  PROVE  ReplaceIInv'
<1> USE DistinctAssumption
    DEF ReplaceIInv, ReplaceTypeOK, TemporaryPrivate, TemporaryWritten, TemporarySynced, Complete, Durable,
        Validated, Committed, AsExpected, Contents, Files, Unrenamed, Reach, onDisk
<1>1. CASE WriteTemporary(w)
  BY <1>1 DEF WriteTemporary
<1>2. CASE SyncTemporary(w)
  BY <1>2 DEF SyncTemporary
<1>3. CASE Persist(w)
  BY <1>3 DEF Persist
<1>4. CASE SyncDirectory(w)
  BY <1>4 DEF SyncDirectory
<1> QED
  BY <1>1, <1>2, <1>3, <1>4

\* Other programs, write-back and a crash keep the invariant.
LEMMA EnvironmentKeeps ==
  ASSUME ReplaceIInv, (\E e \in Edits : Edit(e) \/ Delete(e)) \/ WriteBack \/ PowerLoss
  PROVE  ReplaceIInv'
<1> USE DistinctAssumption
    DEF ReplaceIInv, ReplaceTypeOK, TemporaryPrivate, TemporaryWritten, TemporarySynced, Complete, Durable,
        Validated, Committed, AsExpected, Contents, Files, Unrenamed, onDisk
<1>1. CASE \E e \in Edits : Edit(e)
  BY <1>1 DEF Edit
<1>2. CASE \E e \in Edits : Delete(e)
  BY <1>2 DEF Delete
<1>3. CASE WriteBack
  BY <1>3 DEF WriteBack
<1>4. CASE PowerLoss
  BY <1>4 DEF PowerLoss
<1> QED
  BY <1>1, <1>2, <1>3, <1>4

\* Every step of write_file_atomically_with and its environment keeps it.
LEMMA ReplaceNextIInv == ReplaceIInv /\ [ReplaceNext]_replaceVars => ReplaceIInv'
<1> SUFFICES ASSUME ReplaceIInv, [ReplaceNext]_replaceVars PROVE ReplaceIInv'
  OBVIOUS
<1>1. CASE UNCHANGED replaceVars
  BY <1>1 DEF replaceVars, onDisk, ReplaceIInv, ReplaceTypeOK, TemporaryPrivate, TemporaryWritten, TemporarySynced,
              Complete, Durable, Validated, Committed, AsExpected, Contents
<1>2. CASE ReplaceNext
  BY <1>2, WriterKeeps, WriterWrites, EnvironmentKeeps DEF ReplaceNext
<1> QED
  BY <1>1, <1>2

\* Every reachable state satisfies it.
LEMMA ReplaceInvariance == ReplaceSpec => []ReplaceIInv
  BY ReplaceInitIInv, ReplaceNextIInv, PTL DEF ReplaceSpec

\* The variables of the writers keep their types, which includes that no writer
\* ever reads a destination that is not all there.
THEOREM ReplaceTypeCorrect == ReplaceSpec => []ReplaceTypeOK
<1>1. ReplaceIInv => ReplaceTypeOK
  BY DEF ReplaceIInv
<1> QED
  BY <1>1, ReplaceInvariance, PTL

\* Whatever writers, edits and crashes do, the destination is always a
\* completely written file (write_file_atomically_with synchronizes the
\* temporary file before the rename).
THEOREM DestinationCompleteTheorem == ReplaceSpec => []DestinationComplete
<1>1. ReplaceIInv => DestinationComplete
  BY DEF ReplaceIInv, ReplaceTypeOK, Complete, DestinationComplete
<1> QED
  BY <1>1, ReplaceInvariance, PTL

\* A replacement that was reported as written survives a crash
\* (write_file_atomically_with synchronizes the directory last).
THEOREM SuccessIsDurableTheorem == ReplaceSpec => []SuccessIsDurable
<1>1. ReplaceIInv => SuccessIsDurable
  BY DEF ReplaceIInv, Complete, Durable, SuccessIsDurable, Files
<1> QED
  BY <1>1, ReplaceInvariance, PTL

\* No edit made before the last validation is overwritten
\* (validate_destination_expectation runs again after the temporary is written).
THEOREM SeenEditsKeptTheorem == ReplaceSpec => SeenEditsKept
<1>1. ReplaceIInv => [\A w \in Writers :
                 phase[w] = "synced" /\ phase'[w] = "renamed" => AsExpected(w) \/ w \in raced]_replaceVars
  BY DEF ReplaceIInv, Validated, Committed
<1> QED
  BY <1>1, ReplaceInvariance, PTL DEF SeenEditsKept
=============================================================================
