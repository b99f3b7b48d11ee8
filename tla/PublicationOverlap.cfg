\* Passes of two documents, one of which may import the other, publish at the same time.
CONSTANTS
    Docs = {a, b}
    Files = {f}
    Diagnostics = {x}
    Workers = {w1, w2}
    MaxUpdates = 2
SYMMETRY PublicationSymmetry
SPECIFICATION PublicationSpec
INVARIANT OthersDoNotClobber
CHECK_DEADLOCK FALSE
