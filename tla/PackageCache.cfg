\* Two lock runs of one project, a loader, and another program.
CONSTANTS
    Sources = {s1}
    Procs = {p1, p2}
    Readers = {r1}
    m1 = m1
    m2 = m2
    b1 = b1
    b2 = b2
    Manifests = {m1, m2}
    Bodies = {b1, b2}
    Remote <- TwoTrees
    MaxAlter = 1
    Broken = Broken
    Oversized = Oversized
    Gone = Gone
    NoTree = NoTree
    NoDir = NoDir
    NoProc = NoProc
    NoSource = NoSource
SPECIFICATION FairSpec
INVARIANTS
    LockfileIsMaterialized
    LoaderUsesLockedTree
    SoundReadsSucceed
PROPERTIES
    GoodCheckoutsKept
    BackupOutlivesSwap
    RunsEnd
CHECK_DEADLOCK FALSE
