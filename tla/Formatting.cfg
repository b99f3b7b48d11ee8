\* Four requests, one of them refused, for a single permit.
CONSTANTS
    Requests = {r1, r2, r3, r4}
    Oversized = {r4}
    MaxConcurrent = 1
SPECIFICATION FairSpec
INVARIANT FormatterBound
PROPERTIES RequestAnswered GateRecovers
\* The client may stop sending requests.
CHECK_DEADLOCK FALSE
