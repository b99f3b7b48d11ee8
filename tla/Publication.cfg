\* Two documents that may report on each other and on a shared import, analysed and
\* closed by two workers that send at the same time.
CONSTANTS
    Docs = {a, b}
    Files = {f}
    Diagnostics = {x}
    Workers = {w1, w2}
    MaxUpdates = 3
SYMMETRY PublicationSymmetry
SPECIFICATION PublicationSpec
INVARIANT ClientShowsMerged
CHECK_DEADLOCK FALSE
