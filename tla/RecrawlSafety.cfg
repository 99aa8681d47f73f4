SPECIFICATION Spec
CONSTANTS
    Host = {h1}
    Source = {s1}
    NoSource = NoSource
    Class <- MCClass
    Rule = {"scheduled", "in_force"}
    MaxAttempts = 1
    InitKinds = {"new", "indexed"}
    Commands = {"recrawl"}
    ExplicitRunId = FALSE
    MaxVersion = 3
    MaxDay = 2
    MaxCrashes = 1
    CurrentDays = 0
    RecentDays = 1
    BrokenAfterFailures = 2
    BrokenAfterDays = 0
INVARIANTS
    StatusIsHonest
    VerificationIsFresh
    ClocksInOrder
    CountersBounded
    ReportedIsIndexed
    RuleIsCarried
PROPERTIES
    IndexNeverRegresses
    ReindexOnlyOnChange
