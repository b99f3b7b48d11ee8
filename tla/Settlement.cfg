\* One request against two generations.
CONSTANTS
    Docs = {d1}
    MaxGeneration = 2
    MaxConcurrentAnalyses = 1
    Waiters = {w1}
SPECIFICATION FairWaitSpec
INVARIANT NoLostWakeup
PROPERTY RequestsAnswered
CHECK_DEADLOCK FALSE
