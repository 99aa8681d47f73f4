SPECIFICATION Spec
CONSTANTS
    NumRows = 3
    AdviceRows = {2}
    RagasMetrics <- MCMetrics
    RagasScore = {50, 90}
    JudgeScore = {3, 4}
    MaxRetries = 2
    Accepted <- MCAccepted
    MaxFaults = 2
    NULL = NULL
INVARIANTS
    TypeOK
    PassIsComplete
    FailureNamesItsRow
    JudgeCallsAreBounded
PROPERTIES
    RunEnds
CHECK_DEADLOCK FALSE
