\* Three declarations with up to four reads, a recurrence axis of two steps, one
\* declaration that is supplied or unfinished and one whose evaluation goes wrong.
CONSTANTS
    N = 3
    MaxReads = 4
    Steps = 2
    MaxGiven = 1
    MaxTroubles = 1
SPECIFICATION FairSpec
INVARIANTS
    CycleIsReal
    OrderIsTopological
    ComponentsExact
    AcceptanceExact
    RejectionExplained
    NeverStuck
    OutcomesExact
PROPERTY EvaluationEnds
CHECK_DEADLOCK FALSE
