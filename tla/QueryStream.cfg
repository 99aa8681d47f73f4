SPECIFICATION Spec
CONSTANTS
    Question = {q1, q2}
    primary = primary
    fallback = fallback
    Chains <- MCChains
    MaxAsks = 2
    MaxVisits = 3
    MaxFaults = 1
    Home = home
    NULL = NULL
INVARIANTS
    TypeOK
    ShownIsAsked
    CountedOnSuccess
    TerminalIsLast
    FirstThatAnswersServes
PROPERTIES
    LoadingEnds
CHECK_DEADLOCK FALSE
