\* Two graphcal processes and two writes of other programs.
CONSTANTS
    Writers = {w1, w2}
    Edits = {e1, e2}
    Orig = Orig
    Partial = Partial
    NoFile = NoFile
    Unread = Unread
SYMMETRY Symmetric
SPECIFICATION ReplaceSpec
INVARIANTS DestinationComplete SuccessIsDurable
PROPERTY SeenEditsKept
