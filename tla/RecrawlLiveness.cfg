SPECIFICATION FairSpec
CONSTANTS
    Host = {h1}
    Source = {s1, s2}
    NoSource = NoSource
    Class <- MCClassDistinct
    Rule = {"scheduled"}
    MaxAttempts = 2
    InitKinds = {"new", "legacy"}
    Commands = {"recrawl"}
    ExplicitRunId = FALSE
    MaxVersion = 1
    MaxDay = 0
    MaxCrashes = 1
INVARIANTS
    TypeOK
PROPERTIES
    RunReportsEverySource
