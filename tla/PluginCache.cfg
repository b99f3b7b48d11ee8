\* Two threads load four modules of different sizes, one of which never fits;
\* two cells are held by threads, one is left in flight by a panic.
CONSTANTS
    a = a
    b = b
    c = c
    d = d
    Keys = {a, b, c, d}
    Threads = {t1, t2}
    Cells = {c1, c2, c3}
    NoCell = NoCell
    NoKey = NoKey
    Size <- Sizes
    MaxEntries = 2
    MaxBytes = 3
    MaxPanics = 1
SPECIFICATION FairSpec
INVARIANTS SingleFlight CacheBounded
PROPERTY PromotedIsResident
PROPERTY LoadReturns
