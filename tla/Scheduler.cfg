\* One document, three generations: an edit, a close and a reopen can all be
\* in flight at once.
CONSTANTS
    Docs = {d1}
    MaxGeneration = 3
    MaxConcurrentAnalyses = 2
SPECIFICATION FairSpec
INVARIANTS
    SingleFlight StaleWorkCancelled
PROPERTIES
    SettlementCatchesUp ClosedEntriesReclaimed
\* The client may stop sending notifications.
CHECK_DEADLOCK FALSE
