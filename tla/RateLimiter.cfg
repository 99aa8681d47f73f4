SPECIFICATION Spec
CONSTANTS
    Gateway = {g1, g2}
    Request = {r1, r2, r3}
    Capacity = 5
    Refill = 2
    Cost = 3
    Slack = 1
    Skew = 1
    MaxDelay = 1
    MaxTime = 4
    MaxFaults = 1
    NULL = NULL
SYMMETRY Symmetries
INVARIANTS
    TypeOK
    AdmissionBound
PROPERTIES
    LimitSpec
    RetryAfterSuffices
CHECK_DEADLOCK FALSE
