\* Three requests of the same number of rows, in messages longer than the pipes.
CONSTANTS
    Requests = {q1, q2, q3}
    Rows <- SameRows
    Interfaces = {i1, i2}
    Size = 3
    PipeSize = 2
    MaxEdits = 2
    Nothing = Nothing
    Header = Header
    Eos = Eos
SPECIFICATION FairSpec
INVARIANT
    CleanShutdown
PROPERTIES
    ImplementsRemoteCalls
    CallsReturn
    ServerEndsWithClient
CHECK_DEADLOCK FALSE
